---------------------------- MODULE Spec2Model ----------------------------
(***************************************************************************)
(* A model of the cf-qemu-post trace pipeline: the k-way stream merger     *)
(* (src/bin/log_merger.rs), the set-associative LRU cache and the cache    *)
(* stage built on it (src/bin/cache.rs), and the copy-pattern detector     *)
(* (src/bin/rowclone.rs).  Each stage is a separate program that runs to   *)
(* completion, so each has its own specification over its own variables.   *)
(***************************************************************************)
EXTENDS Integers, Sequences, FiniteSets, Bags, TLC

(***************************************************************************)
(* Bounds of the model.                                                    *)
(***************************************************************************)
\* number of per-CPU trace sources the merger opens (CPUS in log_merger.rs)
NumSources == 3
\* records the sources hold in total
MaxRecords == 4
\* distinct instruction counts a record may carry: 10 .. 9 + MaxInsn
MaxInsn == 2

\* CPUs the cache stage is started with under StageSpec (Args::cpus)
NumCpus == 2
\* lines the cache stage reads under StageSpec
MaxStageOps == 2
\* operations applied to the cache under CacheSpec
MaxCacheOps == 4
\* associativity the caches are built with (third argument of Cache::new)
Associativity == 2
\* capacity in bytes the caches are built with (first argument of Cache::new)
CacheBytes == 512
\* block size in bytes the caches are built with (second argument of Cache::new)
BlockBytes == 64
\* const PAGE_SIZE in Cache::invalidate_page
PAGE_SIZE == 4096
\* window size of the detector (const COPY_WINDOW, 200 in the source)
COPY_WINDOW == 2
\* staleness threshold (const COPY_WINDOW_STALE_THRESHOLD, 20 in the source)
COPY_WINDOW_STALE_THRESHOLD == 1
\* confidence threshold in bytes (const COPY_CONFIDENCE_THRESHOLD, 128 in the source)
COPY_CONFIDENCE_THRESHOLD == 2
\* lines of the kernel log under DetSpec
MaxKernelLines == 3
\* accesses the detector reads under DetSpec
MaxAccesses == 4

Sources == 0 .. (NumSources - 1)
InsnCounts == 10 .. (9 + MaxInsn)

(***************************************************************************)
(* Generic helpers.                                                        *)
(***************************************************************************)
Range(s) == {s[k] : k \in 1 .. Len(s)}

RECURSIVE SeqBag(_)
SeqBag(s) == IF s = <<>> THEN EmptyBag ELSE SetToBag({s[1]}) (+) SeqBag(Tail(s))

RECURSIVE SumLens(_, _)
SumLens(f, S) ==
  IF S = {} THEN 0
  ELSE LET x == CHOOSE y \in S : TRUE IN Len(f[x]) + SumLens(f, S \ {x})

RECURSIVE SourcesBag(_, _)
SourcesBag(f, S) ==
  IF S = {} THEN EmptyBag
  ELSE LET x == CHOOSE y \in S : TRUE IN SeqBag(f[x]) (+) SourcesBag(f, S \ {x})

NonDecreasing(s) ==
  \A p \in 1 .. Len(s) : \A q \in p .. Len(s) : s[p].insn_count <= s[q].insn_count

(***************************************************************************)
(* State.                                                                  *)
(***************************************************************************)
VARIABLES
  \* ---- stream merger (src/bin/log_merger.rs) ----
  parsers,          \* parsers[i]: the records source i has delivered so far
  readErr,          \* sources whose read ended in an I/O error
  heap,             \* BinaryHeap<Reverse<(LogRecord, usize)>> as a set of pairs
  prev_insn_count,  \* insn_count of the record written last
  warnings,         \* number of out-of-order warnings printed
  merged,           \* records written to the output, in order
  mergedFrom,       \* source index of each written record
  mpc,              \* position of main: "fill", "loop", "done"
  fillIdx,          \* source the initial fill loop is at
  \* ---- one Cache (src/bin/cache.rs) ----
  cache,            \* the Cache: [block_size, sets], each set [lines, lru_order]
  cacheOps,         \* the calls made so far: [op, arg, hit]
  cachePanicked,    \* TRUE once an assertion of the cache has failed
  \* ---- cache stage (main of src/bin/cache.rs) ----
  caches,           \* caches[cpu]: the Cache bank of each CPU
  first,            \* first[cpu]: no entry of that CPU has been seen yet
  prev_insn_counts, \* the vector prev_insn_count of the cache stage
  writers,          \* writers[cpu]: the lines written to cpu_<cpu>.trace
  stageIn,          \* the input lines read so far, parsed
  stagePanicked,    \* TRUE once the stage has panicked
  overflowChecks,   \* the build panics on integer overflow (debug) or wraps
  \* ---- copy-pattern detector (src/bin/rowclone.rs) ----
  copy_window,      \* Vec<KernelRecord>: the intents loaded and not yet retired
  copy_logs,        \* the kernel log lines not read yet
  next_kernel_rec_id, \* NEXT_KERNEL_REC_ID
  potential_copies, \* Vec<MemCpy>
  ongoing_copies,   \* Vec<MemCpy>
  rowclones,        \* the counter "Rowclones matched"
  mem_accesses,     \* the rest of a scripted access stream
  accessed,         \* number of accesses taken from the stream
  emitted,          \* the lines the last access made the detector write
  rowclone_out,     \* the CopyRecords written so far, in order
  regular_out,      \* number of regular accesses written so far
  retired,          \* rec_ids passed to remove_stale_copies, in order
  loaded,           \* loaded[id + 1]: Len(retired) when intent id was loaded
  scenario,         \* the copy a scripted stream performs
  dpc,              \* position of the detector: "run", "done"
  \* ---- the stages in a row ----
  annotated,        \* the detector's output as the cache stage reads it
  \* ---- record codec (src/log_parser.rs, src/memory_access.rs) ----
  codecRec,         \* a LogRecord
  bigEndian,        \* byte order of the machine the codec runs on
  codecBuf,         \* the buffer serialize last filled, <<>> before
  codecLine,        \* a line of text, as a sequence of characters
  codecOut,         \* what deserialize last returned
  codecParsed,      \* what LogRecord::from_str last returned, and for which text
  codecAcc,         \* what MemoryAccess::from_str last returned
  \* the kernel-log line parser on its own
  kernelLine,       \* a line of the kernel log, as the fields the regex captures
  kernelRec,        \* what parse_kernel_line last returned
  \* ---- LookaheadIterator (src/lookahead_iter.rs) ----
  lookSource,       \* the items of the underlying iterator, as it was wrapped
  lookahead,        \* the LookaheadIterator: iter (items not yet pulled), buffer
  lookTaken,        \* the items next() has returned, in order
  lookLast          \* the last call and what it returned

mergeVars ==
  <<parsers, readErr, heap, prev_insn_count, warnings, merged, mergedFrom, mpc, fillIdx>>

cacheVars == <<cache, cacheOps, cachePanicked>>

stageVars ==
  <<caches, first, prev_insn_counts, writers, stageIn, stagePanicked, overflowChecks>>

detVars ==
  <<copy_window, copy_logs, next_kernel_rec_id, potential_copies, ongoing_copies,
    rowclones, mem_accesses, accessed, emitted, rowclone_out, regular_out,
    retired, loaded, scenario, dpc>>

pipeVars == <<annotated>>

codecVars ==
  <<codecRec, bigEndian, codecBuf, codecLine, codecOut, codecParsed, codecAcc>>

kernelVars == <<kernelLine, kernelRec>>

lookVars == <<lookSource, lookahead, lookTaken, lookLast>>

vars == <<mergeVars, cacheVars, stageVars, detVars, pipeVars, codecVars, kernelVars, lookVars>>

\* what each program leaves alone: the variables of the other programs
notMerge == <<cacheVars, stageVars, detVars, pipeVars, codecVars, kernelVars, lookVars>>
notCache == <<mergeVars, stageVars, detVars, pipeVars, codecVars, kernelVars, lookVars>>
notStage == <<mergeVars, cacheVars, detVars, pipeVars, codecVars, kernelVars, lookVars>>
notDet == <<mergeVars, cacheVars, stageVars, pipeVars, codecVars, kernelVars, lookVars>>
notCodec == <<mergeVars, cacheVars, stageVars, detVars, pipeVars, kernelVars, lookVars>>
notKernel == <<mergeVars, cacheVars, stageVars, pipeVars, codecVars, lookVars>>
notLook == <<mergeVars, cacheVars, stageVars, detVars, pipeVars, codecVars, kernelVars>>

(***************************************************************************)
(* Stream merger.                                                          *)
(***************************************************************************)
\* a record of the per-CPU trace of source i
LogRecord(n, i) ==
  [insn_count |-> n, cpu |-> i, store |-> 0, size |-> 0, address |-> 4096 + i]

\* impl Ord for LogRecord: records compare by insn_count alone
RecordCmp(a, b) ==
  IF a.insn_count < b.insn_count THEN -1
  ELSE IF a.insn_count > b.insn_count THEN 1 ELSE 0

\* (Reverse(record), i): smallest insn_count first, but the larger index on a tie
HeapBeforeTieHigh(e, f) ==
  \/ RecordCmp(e[1], f[1]) < 0
  \/ RecordCmp(e[1], f[1]) = 0 /\ e[2] > f[2]

\* the Reverse wrapper dropped: a max-heap
HeapBeforeMax(e, f) ==
  \/ RecordCmp(e[1], f[1]) > 0
  \/ RecordCmp(e[1], f[1]) = 0 /\ e[2] > f[2]

\* Reverse<(LogRecord, usize)>: e leaves the heap before f when the tuple
\* (record, index) is lexicographically smaller
HeapBefore(e, f) ==
  \/ RecordCmp(e[1], f[1]) < 0
  \/ RecordCmp(e[1], f[1]) = 0 /\ e[2] < f[2]

\* the entries heap.pop() may return
HeapPop(h) == {e \in h : \A f \in h : ~HeapBefore(f, e)}

\* what parser.next() may return for source i: None at end of data, Some(Err)
\* on any other read failure, Some(Ok(record)) while the source has records
ParserNext(i) ==
  {[kind |-> "eof"], [kind |-> "err"]} \cup
  (IF SumLens(parsers, Sources) < MaxRecords
   THEN {[kind |-> "ok", record |-> LogRecord(n, i)] : n \in InsnCounts}
   ELSE {})

\* an ordered set keyed by the record: a record comparing equal to a buffered
\* one is not inserted
PushNextRecordDedup(h, res, i) ==
  IF res.kind = "ok" /\ \A e \in h : RecordCmp(e[1], res.record) # 0
  THEN h \cup {<<res.record, i>>} ELSE h

\* push_next_record: only Some(Ok(record)) is pushed
PushNextRecord(h, res, i) ==
  IF res.kind = "ok" THEN h \cup {<<res.record, i>>} ELSE h

\* the parser's position and error state after next() returned res
ParserAdvance(res, i) ==
  /\ parsers' = IF res.kind = "ok"
                THEN [parsers EXCEPT ![i] = Append(@, res.record)]
                ELSE parsers
  /\ readErr' = IF res.kind = "err" THEN readErr \cup {i} ELSE readErr

MergeStart ==
  /\ parsers = [i \in Sources |-> <<>>]
  /\ readErr = {}
  /\ heap = {}
  /\ prev_insn_count = 0
  /\ warnings = 0
  /\ merged = <<>>
  /\ mergedFrom = <<>>
  /\ mpc = "fill"
  /\ fillIdx = 0

\* for (i, parser) in parsers.iter_mut().enumerate() { push_next_record(..) }
MergeFill ==
  /\ mpc = "fill"
  /\ UNCHANGED notMerge
  /\ \E res \in ParserNext(fillIdx) :
       /\ heap' = PushNextRecord(heap, res, fillIdx)
       /\ ParserAdvance(res, fillIdx)
  /\ fillIdx' = fillIdx + 1
  /\ mpc' = IF fillIdx + 1 = NumSources THEN "loop" ELSE "fill"
  /\ UNCHANGED <<prev_insn_count, warnings, merged, mergedFrom>>

\* one iteration of while let Some(Reverse((record, i))) = heap.pop()
MergePop ==
  /\ mpc = "loop"
  /\ UNCHANGED notMerge
  /\ \E e \in HeapPop(heap) :
       LET record == e[1]
           i == e[2]
       IN /\ warnings' = IF prev_insn_count > record.insn_count
                         THEN warnings + 1 ELSE warnings
          /\ prev_insn_count' = record.insn_count
          /\ merged' = Append(merged, record)
          /\ mergedFrom' = Append(mergedFrom, i)
          /\ \E res \in ParserNext(i) :
               /\ heap' = PushNextRecord(heap \ {e}, res, i)
               /\ ParserAdvance(res, i)
  /\ UNCHANGED <<mpc, fillIdx>>

\* heap.pop() returns None: the loop and main end
MergeExit ==
  /\ mpc = "loop"
  /\ heap = {}
  /\ mpc' = "done"
  /\ UNCHANGED <<parsers, readErr, heap, prev_insn_count, warnings, merged,
                 mergedFrom, fillIdx>>
  /\ UNCHANGED notMerge

MergeNext == MergeFill \/ MergePop \/ MergeExit

(***************************************************************************)
(* Set-associative LRU cache.                                              *)
(* A line is Option<u64>: <<>> is None and <<tag>> is Some(tag).  Slot     *)
(* indices are 0-based as in the code; lru_order is a sequence of them.    *)
(***************************************************************************)
\* lines.iter().position(|&line| line == value): the first slot index holding
\* value, or -1 for None
Position(lines, value) ==
  LET hits == {j \in DOMAIN lines : lines[j] = value}
  IN IF hits = {} THEN -1 ELSE CHOOSE j \in hits : \A h \in hits : j <= h

\* Vec::retain(|&i| i != pos)
RECURSIVE RetainNot(_, _)
RetainNot(order, pos) ==
  IF order = <<>> THEN <<>>
  ELSE IF order[1] = pos THEN RetainNot(Tail(order), pos)
       ELSE <<order[1]>> \o RetainNot(Tail(order), pos)

\* CacheSet::new
CacheSetNew(associativity) ==
  [lines |-> [j \in 0 .. (associativity - 1) |-> <<>>], lru_order |-> <<>>]

\* on a full set the most recently used line is evicted instead of the least
CacheSetAccessEvictMru(set, tag) ==
  LET pos == Position(set.lines, <<tag>>)
      free_pos == Position(set.lines, <<>>)
  IN IF pos # -1
     THEN [set |-> [set EXCEPT !.lru_order = Append(RetainNot(@, pos), pos)],
           hit |-> TRUE]
     ELSE IF free_pos # -1
     THEN [set |-> [lines |-> [set.lines EXCEPT ![free_pos] = <<tag>>],
                    lru_order |-> Append(set.lru_order, free_pos)],
           hit |-> FALSE]
     ELSE LET evict_index == set.lru_order[Len(set.lru_order)]
          IN [set |-> [lines |-> [set.lines EXCEPT ![evict_index] = <<tag>>],
                       lru_order |-> Append(SubSeq(set.lru_order, 1,
                                                   Len(set.lru_order) - 1),
                                            evict_index)],
              hit |-> FALSE]

\* CacheSet::access: the set after the access, and whether it hit
CacheSetAccess(set, tag) ==
  LET pos == Position(set.lines, <<tag>>)
      free_pos == Position(set.lines, <<>>)
  IN IF pos # -1
     THEN [set |-> [set EXCEPT !.lru_order = Append(RetainNot(@, pos), pos)],
           hit |-> TRUE]
     ELSE IF free_pos # -1
     THEN [set |-> [lines |-> [set.lines EXCEPT ![free_pos] = <<tag>>],
                    lru_order |-> Append(set.lru_order, free_pos)],
           hit |-> FALSE]
     ELSE LET evict_index == set.lru_order[1]
          IN [set |-> [lines |-> [set.lines EXCEPT ![evict_index] = <<tag>>],
                       lru_order |-> Append(Tail(set.lru_order), evict_index)],
              hit |-> FALSE]

\* the line is cleared but its index stays in the LRU order
CacheSetInvalidateKeepOrder(set, tag) ==
  LET pos == Position(set.lines, <<tag>>)
  IN IF pos # -1
     THEN [lines |-> [set.lines EXCEPT ![pos] = <<>>],
           lru_order |-> set.lru_order]
     ELSE set

\* CacheSet::invalidate
CacheSetInvalidate(set, tag) ==
  LET pos == Position(set.lines, <<tag>>)
  IN IF pos # -1
     THEN [lines |-> [set.lines EXCEPT ![pos] = <<>>],
           lru_order |-> RetainNot(set.lru_order, pos)]
     ELSE set

\* Cache::new; sets are indexed from 0
CacheNew(size, block_size, associativity) ==
  LET num_lines == size \div block_size
      num_sets == num_lines \div associativity
  IN [block_size |-> block_size,
      sets |-> [x \in 0 .. (num_sets - 1) |-> CacheSetNew(associativity)]]

NumSets(c) == Cardinality(DOMAIN c.sets)

\* CacheSet::new of the library module src/cache.rs (the cache that main.rs
\* builds): lru_order starts as 0, 1, ..., associativity - 1 over free lines
LibCacheSetNew(associativity) ==
  [lines |-> [j \in 0 .. (associativity - 1) |-> <<>>],
   lru_order |-> [k \in 1 .. associativity |-> k - 1]]

\* Cache::new of src/cache.rs
LibCacheNew(size, block_size, associativity) ==
  LET num_lines == size \div block_size
      num_sets == num_lines \div associativity
  IN [block_size |-> block_size,
      sets |-> [x \in 0 .. (num_sets - 1) |-> LibCacheSetNew(associativity)]]

\* Cache::access: the cache after the access, and whether it hit
CacheAccess(c, address) ==
  LET block_addr == address \div c.block_size
      set_index == block_addr % NumSets(c)
      r == CacheSetAccess(c.sets[set_index], block_addr)
  IN [cache |-> [c EXCEPT !.sets[set_index] = r.set], hit |-> r.hit]

\* for block_addr in from..=end_block { sets[..].invalidate(block_addr) }
RECURSIVE InvalidateBlocks(_, _, _)
InvalidateBlocks(c, from, end_block) ==
  IF from > end_block THEN c
  ELSE LET set_index == from % NumSets(c)
       IN InvalidateBlocks(
            [c EXCEPT !.sets[set_index] = CacheSetInvalidate(@, from)],
            from + 1, end_block)

\* the last block is computed from address + PAGE_SIZE, one block too far
CacheInvalidatePageOneMore(c, address) ==
  IF address % PAGE_SIZE # 0
  THEN [cache |-> c, panic |-> TRUE]
  ELSE LET start_block == address \div c.block_size
           end_block == (address + PAGE_SIZE) \div c.block_size
       IN [cache |-> InvalidateBlocks(c, start_block, end_block), panic |-> FALSE]

\* no assertion: the page that contains the address is invalidated
CacheInvalidatePageRounded(c, address) ==
  LET page == address - (address % PAGE_SIZE)
      start_block == page \div c.block_size
      end_block == (page + PAGE_SIZE - 1) \div c.block_size
  IN [cache |-> InvalidateBlocks(c, start_block, end_block), panic |-> FALSE]

\* Cache::invalidate_page: the cache after the call, or the failed assertion
CacheInvalidatePage(c, address) ==
  IF address % PAGE_SIZE # 0
  THEN [cache |-> c, panic |-> TRUE]
  ELSE LET start_block == address \div c.block_size
           end_block == (address + PAGE_SIZE - 1) \div c.block_size
       IN [cache |-> InvalidateBlocks(c, start_block, end_block), panic |-> FALSE]

\* the block addresses resident in cache c
Resident(c) ==
  {c.sets[x].lines[j][1] :
     <<x, j>> \in {y \in (DOMAIN c.sets) \X (0 .. (Associativity - 1)) :
                    c.sets[y[1]].lines[y[2]] # <<>>}}

\* addresses the cache is accessed with: Associativity + 1 blocks of set 0 in
\* page 0, a block of another set, and two blocks of page 1
AccessAddrs ==
  {j * ((CacheBytes \div BlockBytes) \div Associativity) * BlockBytes :
     j \in 0 .. Associativity}
  \cup {BlockBytes + 3, PAGE_SIZE, PAGE_SIZE + BlockBytes + 1}

\* arguments invalidate_page is called with; BlockBytes is not page aligned
InvalidateAddrs == {0, PAGE_SIZE, BlockBytes}

CacheStart ==
  /\ cache = CacheNew(CacheBytes, BlockBytes, Associativity)
  /\ cacheOps = <<>>
  /\ cachePanicked = FALSE

\* a call of Cache::access
CacheDoAccess ==
  /\ ~cachePanicked
  /\ Len(cacheOps) < MaxCacheOps
  /\ \E address \in AccessAddrs :
       LET r == CacheAccess(cache, address)
       IN /\ cache' = r.cache
          /\ cacheOps' = Append(cacheOps, [op |-> "access", arg |-> address, hit |-> r.hit])
  /\ UNCHANGED <<cachePanicked, notCache>>

\* a call of Cache::invalidate_page
CacheDoInvalidatePage ==
  /\ ~cachePanicked
  /\ Len(cacheOps) < MaxCacheOps
  /\ \E address \in InvalidateAddrs :
       LET r == CacheInvalidatePage(cache, address)
       IN /\ cache' = r.cache
          /\ cachePanicked' = r.panic
          /\ cacheOps' = Append(cacheOps, [op |-> "invalidate_page", arg |-> address,
                                           hit |-> FALSE])
  /\ UNCHANGED notCache

CacheNext == CacheDoAccess \/ CacheDoInvalidatePage

(***************************************************************************)
(* Cache stage: main of src/bin/cache.rs.                                  *)
(***************************************************************************)
\* a - b on u64.  [wrapped |-> FALSE, value |-> a - b] when a >= b; otherwise
\* the subtraction overflows and value is b - a: the build either panics or
\* yields the wrapped number 2^64 - value
U64Sub(a, b) ==
  IF a >= b THEN [wrapped |-> FALSE, value |-> a - b]
  ELSE [wrapped |-> TRUE, value |-> b - a]

\* ramulator_mem_format: the trace line of a missed regular access
ramulator_mem_format(rec, prev) ==
  [kind |-> IF rec.store THEN "store" ELSE "load",
   bubble |-> U64Sub(rec.insn_count, prev),
   address |-> rec.address]

\* the state the stage starts in for a run with n CPUs
StageNew(n) ==
  [caches |-> [c \in 0 .. (n - 1) |-> CacheNew(CacheBytes, BlockBytes, Associativity)],
   first |-> [c \in 0 .. (n - 1) |-> TRUE],
   prev |-> [c \in 0 .. (n - 1) |-> 0],
   writers |-> [c \in 0 .. (n - 1) |-> <<>>],
   panicked |-> FALSE]

\* prev_insn_count[cpu] is left at 0 for the CPU's first entry
StageRegularNoFirst(st, mem, checks) ==
  LET cpu == mem.cpu
      first1 == [st.first EXCEPT ![cpu] = FALSE]
      r == CacheAccess(st.caches[cpu], mem.address)
      caches1 == [st.caches EXCEPT ![cpu] = r.cache]
      line == ramulator_mem_format(mem, st.prev[cpu])
  IN IF r.hit
     THEN [st EXCEPT !.caches = caches1, !.first = first1]
     ELSE IF line.bubble.wrapped /\ checks
     THEN [st EXCEPT !.caches = caches1, !.first = first1, !.panicked = TRUE]
     ELSE [st EXCEPT !.caches = caches1, !.first = first1,
                     !.prev[cpu] = mem.insn_count,
                     !.writers[cpu] = Append(@, line)]

\* the arm MemoryAccess::Regular(mem) of the loop body
StageRegular(st, mem, checks) ==
  LET cpu == mem.cpu
      first1 == [st.first EXCEPT ![cpu] = FALSE]
      prev1 == IF st.first[cpu] THEN [st.prev EXCEPT ![cpu] = mem.insn_count]
               ELSE st.prev
      r == CacheAccess(st.caches[cpu], mem.address)
      caches1 == [st.caches EXCEPT ![cpu] = r.cache]
      line == ramulator_mem_format(mem, prev1[cpu])
  IN IF r.hit
     THEN [st EXCEPT !.caches = caches1, !.first = first1, !.prev = prev1]
     ELSE IF line.bubble.wrapped /\ checks
     THEN [st EXCEPT !.caches = caches1, !.first = first1, !.prev = prev1,
                     !.panicked = TRUE]
     ELSE [st EXCEPT !.caches = caches1, !.first = first1,
                     !.prev = [prev1 EXCEPT ![cpu] = mem.insn_count],
                     !.writers[cpu] = Append(@, line)]

\* only the bank of the record's own CPU is invalidated
StageRowcloneOwnBank(st, rc, checks) ==
  LET cpu == rc.cpu
      first1 == [st.first EXCEPT ![cpu] = FALSE]
      prev1 == IF st.first[cpu] THEN [st.prev EXCEPT ![cpu] = rc.insn_count]
               ELSE st.prev
      caches1 == [st.caches EXCEPT ![cpu] = CacheInvalidatePage(@, rc.to).cache]
      bubble == U64Sub(rc.insn_count, prev1[cpu])
      line == [kind |-> "copy", bubble |-> bubble, from |-> rc.from, to |-> rc.to]
  IN IF rc.to % PAGE_SIZE # 0
     THEN [st EXCEPT !.first = first1, !.prev = prev1, !.panicked = TRUE]
     ELSE IF bubble.wrapped /\ checks
     THEN [st EXCEPT !.caches = caches1, !.first = first1, !.prev = prev1,
                     !.panicked = TRUE]
     ELSE [st EXCEPT !.caches = caches1, !.first = first1,
                     !.prev = [prev1 EXCEPT ![cpu] = rc.insn_count],
                     !.writers[cpu] = Append(@, line)]

\* the arm MemoryAccess::Rowclone(rc) of the loop body
StageRowclone(st, rc, checks) ==
  LET cpu == rc.cpu
      first1 == [st.first EXCEPT ![cpu] = FALSE]
      prev1 == IF st.first[cpu] THEN [st.prev EXCEPT ![cpu] = rc.insn_count]
               ELSE st.prev
      caches1 == [c \in DOMAIN st.caches |-> CacheInvalidatePage(st.caches[c], rc.to).cache]
      bubble == U64Sub(rc.insn_count, prev1[cpu])
      line == [kind |-> "copy", bubble |-> bubble, from |-> rc.from, to |-> rc.to]
  IN IF rc.to % PAGE_SIZE # 0
     THEN \* the assertion of invalidate_page fails in the first bank
          [st EXCEPT !.first = first1, !.prev = prev1, !.panicked = TRUE]
     ELSE IF bubble.wrapped /\ checks
     THEN [st EXCEPT !.caches = caches1, !.first = first1, !.prev = prev1,
                     !.panicked = TRUE]
     ELSE [st EXCEPT !.caches = caches1, !.first = first1,
                     !.prev = [prev1 EXCEPT ![cpu] = rc.insn_count],
                     !.writers[cpu] = Append(@, line)]

\* the body of while let Some(Ok(line)) = lines.next() for one parsed line; a
\* line input_parser rejects is skipped
StageStep(st, rec, checks) ==
  IF rec.kind = "regular" THEN StageRegular(st, rec, checks)
  ELSE IF rec.kind = "rowclone" THEN StageRowclone(st, rec, checks)
  ELSE st

\* addresses of regular accesses: one in page 0x1000, one in page 0x2000
StageAddrs == {PAGE_SIZE, 2 * PAGE_SIZE + BlockBytes}

\* destinations of copy records: a page, and an address that is not page aligned
StageCopyTo == {PAGE_SIZE, PAGE_SIZE + BlockBytes}

\* what a line of the stage's input parses to, for a run with n CPUs
StageInputs(n) ==
  {[kind |-> "regular", cpu |-> c, insn_count |-> i, address |-> a, store |-> s] :
     c \in 0 .. (n - 1), i \in InsnCounts, a \in StageAddrs, s \in BOOLEAN}
  \cup {[kind |-> "rowclone", cpu |-> c, insn_count |-> i, from |-> 0, to |-> t] :
     c \in 0 .. (n - 1), i \in InsnCounts, t \in StageCopyTo}
  \cup {[kind |-> "malformed"]}

\* the stage's variables as one record, and back
StageState ==
  [caches |-> caches, first |-> first, prev |-> prev_insn_counts,
   writers |-> writers, panicked |-> stagePanicked]

StageSet(st) ==
  /\ caches' = st.caches
  /\ first' = st.first
  /\ prev_insn_counts' = st.prev
  /\ writers' = st.writers
  /\ stagePanicked' = st.panicked

StageStart(n) ==
  /\ caches = StageNew(n).caches
  /\ first = StageNew(n).first
  /\ prev_insn_counts = StageNew(n).prev
  /\ writers = StageNew(n).writers
  /\ stagePanicked = FALSE
  /\ stageIn = <<>>
  /\ overflowChecks \in BOOLEAN

\* one iteration of the loop over the input lines
StageProcess ==
  /\ ~stagePanicked
  /\ Len(stageIn) < MaxStageOps
  /\ \E rec \in StageInputs(Cardinality(DOMAIN caches)) :
       /\ StageSet(StageStep(StageState, rec, overflowChecks))
       /\ stageIn' = Append(stageIn, rec)
  /\ UNCHANGED <<overflowChecks, notStage>>

StageNext == StageProcess

(***************************************************************************)
(* Copy-pattern detector: src/bin/rowclone.rs.                             *)
(* A kernel log line is the tuple of the regex's capture groups, or a line *)
(* the regex does not match.  The handlers are functions of the detector   *)
(* state d = [copy_window, copy_logs, next_id, potential_copies,           *)
(* ongoing_copies, rowclones, out, retired, loaded]; out collects the      *)
(* lines written, retired and loaded record the history of the window.     *)
(***************************************************************************)

\* a line the regex matches: groups 2, 3, 4, 5, 6, 7, 8
KernelLine(op, size, addr2, kernel_addr, user_addr) ==
  [kind |-> "intent", op |-> op, cpu |-> 0, size |-> size, addr1 |-> 0,
   addr2 |-> addr2, kernel_addr |-> kernel_addr, user_addr |-> user_addr]

\* a line the regex does not match
GarbledLine == [kind |-> "garbled"]

\* a LogRecord as the detector reads it from the merged stream
Access(insn_count, store, size, address) ==
  [insn_count |-> insn_count, cpu |-> 0, store |-> store, size |-> size,
   address |-> address]

RemoveAt(s, idx) == SubSeq(s, 1, idx - 1) \o SubSeq(s, idx + 1, Len(s))

\* kernel_address is taken from the seventh field
parse_kernel_line_seventh(line, id) ==
  IF line.kind = "intent"
  THEN [some |-> TRUE, next_id |-> id + 1,
        rec |-> [rec_id |-> id, cpu |-> line.cpu, size |-> line.size,
                 operation |-> line.op, kernel_address |-> line.kernel_addr,
                 user_address |-> line.user_addr, stale |-> 0]]
  ELSE [some |-> FALSE, next_id |-> id]

\* Option<KernelRecord>; the id is taken with fetch_add when the regex matches
parse_kernel_line(line, id) ==
  IF line.kind = "intent"
  THEN [some |-> TRUE, next_id |-> id + 1,
        rec |-> [rec_id |-> id, cpu |-> line.cpu, size |-> line.size,
                 operation |-> line.op, kernel_address |-> line.addr2,
                 user_address |-> line.user_addr, stale |-> 0]]
  ELSE [some |-> FALSE, next_id |-> id]

mem_copy_match(mem_access, copy) ==
  \/ copy.current_from = mem_access.address /\ mem_access.store = 0
  \/ copy.current_to = mem_access.address /\ mem_access.store = 1

copy_done(copy) == copy.current_to >= copy.to + copy.size

\* both cursors move with every matched access
update_copy_both(copy, mem_access) ==
  LET access_size_bytes == 2 ^ mem_access.size
  IN  [copy EXCEPT !.current_to = @ + access_size_bytes,
                   !.current_from = @ + access_size_bytes]

\* the copy after the access; the code returns copy_done of it
update_copy(copy, mem_access) ==
  LET access_size_bytes == 2 ^ mem_access.size
  IN  IF mem_access.store = 1
      THEN [copy EXCEPT !.current_to = @ + access_size_bytes]
      ELSE [copy EXCEPT !.current_from = @ + access_size_bytes]

\* the cursors never fall below their start, so the u64 differences do not wrap
copy_matched(copy) ==
  /\ (copy.current_to - copy.to) > COPY_CONFIDENCE_THRESHOLD
  /\ (copy.current_from - copy.from) > COPY_CONFIDENCE_THRESHOLD

print_rowclone(copy) ==
  [kind |-> "rowclone", insn_count |-> copy.insn_count, from |-> copy.from,
   to |-> copy.to]

print_regular_access(mem_access) ==
  [kind |-> "regular", insn_count |-> mem_access.insn_count,
   address |-> mem_access.address, store |-> (mem_access.store = 1)]

update_stale(rec_id, window) ==
  [k \in 1 .. Len(window) |->
     IF window[k].rec_id < rec_id
     THEN [window[k] EXCEPT !.stale = @ + 1]
     ELSE window[k]]

\* retain(|copy| copy.stale <= COPY_WINDOW_STALE_THRESHOLD)
RetainFresh(window) ==
  LET Keep(copy) == copy.stale <= COPY_WINDOW_STALE_THRESHOLD
  IN  SelectSeq(window, Keep)

\* retain(|copy| copy.stale < COPY_WINDOW_STALE_THRESHOLD)
RetainFreshStrict(window) ==
  LET Keep(copy) == copy.stale < COPY_WINDOW_STALE_THRESHOLD
  IN  SelectSeq(window, Keep)

\* retain(|i| true): the intent of the CopyRecord stays in the window
RetainEvery(window, rec_id) == window

\* retain(|i| i.rec_id != rec_id)
RetainOthers(window, rec_id) ==
  LET Keep(i) == i.rec_id # rec_id
  IN  SelectSeq(window, Keep)

\* the refill loop of remove_stale_copies: it ends when the window is full,
\* when the log has no further line, or at a line that does not parse
RECURSIVE RefillWindow(_)
RefillWindow(d) ==
  IF Len(d.copy_window) >= COPY_WINDOW \/ d.copy_logs = <<>>
  THEN d
  ELSE LET p == parse_kernel_line(Head(d.copy_logs), d.next_id)
           read == [d EXCEPT !.copy_logs = Tail(@), !.next_id = p.next_id]
       IN  IF p.some
           THEN RefillWindow([read EXCEPT !.copy_window = Append(@, p.rec),
                                          !.loaded = Append(@, Len(d.retired))])
           ELSE read

\* retain(|copy| copy.stale < threshold) in place of <=
remove_stale_copies_strict(rec_id, d) ==
  RefillWindow([d EXCEPT
    !.copy_window = RetainFreshStrict(update_stale(rec_id, @)),
    !.retired = Append(@, rec_id)])

remove_stale_copies(rec_id, d) ==
  RefillWindow([d EXCEPT
    !.copy_window = RetainFresh(update_stale(rec_id, @)),
    !.retired = Append(@, rec_id)])

\* a copy that completes is written once more
part_of_ongoing_copy_emits(d, mem_access) ==
  LET M == {k \in 1 .. Len(d.ongoing_copies) :
              mem_copy_match(mem_access, d.ongoing_copies[k])}
  IN  IF M = {}
      THEN [d |-> d, matched |-> FALSE]
      ELSE LET idx == CHOOSE k \in M : \A j \in M : k <= j
               copy == update_copy(d.ongoing_copies[idx], mem_access)
           IN  [d |-> IF copy_done(copy)
                      THEN [d EXCEPT !.ongoing_copies = RemoveAt(@, idx),
                                     !.out = Append(@, print_rowclone(copy))]
                      ELSE [d EXCEPT !.ongoing_copies[idx] = copy],
                matched |-> TRUE]

\* the first ongoing copy a cursor of which the access is at takes it
part_of_ongoing_copy(d, mem_access) ==
  LET M == {k \in 1 .. Len(d.ongoing_copies) :
              mem_copy_match(mem_access, d.ongoing_copies[k])}
  IN  IF M = {}
      THEN [d |-> d, matched |-> FALSE]
      ELSE LET idx == CHOOSE k \in M : \A j \in M : k <= j
               copy == update_copy(d.ongoing_copies[idx], mem_access)
           IN  [d |-> [d EXCEPT !.ongoing_copies =
                         IF copy_done(copy)
                         THEN RemoveAt(@, idx)
                         ELSE [@ EXCEPT ![idx] = copy]],
                matched |-> TRUE]

\* the CopyRecord is written without counting it
EmitRowcloneUncounted(d, copy) ==
  LET retired_ == [d EXCEPT !.copy_window = RetainOthers(@, copy.rec_id)]
      swept == remove_stale_copies(copy.rec_id, retired_)
  IN  [swept EXCEPT !.out = Append(@, print_rowclone(copy))]

\* lines 250-256 and 258-264: count, retire the intent, write the CopyRecord
EmitRowclone(d, copy) ==
  LET counted == [d EXCEPT !.rowclones = @ + 1,
                           !.copy_window = RetainOthers(@, copy.rec_id)]
      swept == remove_stale_copies(copy.rec_id, counted)
  IN  [swept EXCEPT !.out = Append(@, print_rowclone(copy))]

\* the loop over matches.iter().rev()
RECURSIVE PotentialLoop(_, _, _)
PotentialLoop(d, mem_access, matches) ==
  IF matches = {}
  THEN d
  ELSE LET idx == CHOOSE k \in matches : \A j \in matches : k >= j
           copy == update_copy(d.potential_copies[idx], mem_access)
           next ==
             IF copy_done(copy)
             THEN [EmitRowclone(d, copy) EXCEPT
                     !.potential_copies = RemoveAt(@, idx)]
             ELSE IF copy_matched(copy)
             THEN [EmitRowclone(d, copy) EXCEPT
                     !.potential_copies = RemoveAt(@, idx),
                     !.ongoing_copies = Append(@, copy)]
             ELSE [d EXCEPT !.potential_copies[idx] = copy]
       IN  PotentialLoop(next, mem_access, matches \ {idx})

part_of_potential_copy(d, mem_access) ==
  LET matches == {k \in 1 .. Len(d.potential_copies) :
                    mem_copy_match(mem_access, d.potential_copies[k])}
  IN  [d |-> PotentialLoop(d, mem_access, matches), matched |-> matches # {}]

\* the body of the loop over copy_window for the intent at position k
StartAt(pc, copy, mem_access) ==
  LET is_start ==
        CASE copy.operation = "r" ->
               mem_access.store = 0 /\ copy.kernel_address = mem_access.address
          [] copy.operation = "w" ->
               mem_access.store = 0 /\ copy.user_address = mem_access.address
          [] OTHER -> FALSE
      E == {i \in 1 .. Len(pc.potential_copies) :
              pc.potential_copies[i].rec_id = copy.rec_id}
      to == IF copy.operation = "w" THEN copy.kernel_address ELSE copy.user_address
  IN  IF ~is_start
      THEN pc
      ELSE IF E # {}
      THEN LET i == CHOOSE k \in E : \A j \in E : k <= j
               pot_copy == pc.potential_copies[i]
           IN  IF pot_copy.current_to = pot_copy.to
               THEN [potential_copies |->
                       [pc.potential_copies EXCEPT
                          ![i].insn_count = mem_access.insn_count],
                     potential_copy |-> TRUE]
               ELSE pc
      ELSE [potential_copies |->
              Append(pc.potential_copies,
                [rec_id |-> copy.rec_id,
                 insn_count |-> mem_access.insn_count,
                 from |-> mem_access.address,
                 to |-> to,
                 size |-> copy.size,
                 \* mem_access.address + 1 << mem_access.size: + binds tighter
                 \* than <<, and no bit is shifted out for the addresses used
                 current_from |-> (mem_access.address + 1) * (2 ^ mem_access.size),
                 current_to |-> to]),
            potential_copy |-> TRUE]

RECURSIVE StartLoop(_, _, _, _)
StartLoop(pc, window, k, mem_access) ==
  IF k > Len(window)
  THEN pc
  ELSE StartLoop(StartAt(pc, window[k], mem_access), window, k + 1, mem_access)

check_potential_copy_start(d, mem_access) ==
  LET r == StartLoop([potential_copies |-> d.potential_copies,
                      potential_copy |-> FALSE],
                     d.copy_window, 1, mem_access)
  IN  [d |-> [d EXCEPT !.potential_copies = r.potential_copies],
       matched |-> r.potential_copy]

\* the potential copies are tried before the ongoing ones
match_copy_to_mem_accesses_potential_first(d, mem_access) ==
  LET o == part_of_ongoing_copy(d, mem_access)
      p == part_of_potential_copy(d, mem_access)
      c == check_potential_copy_start(d, mem_access)
  IN  IF p.matched THEN p.d
      ELSE IF o.matched THEN o.d
      ELSE IF c.matched THEN c.d
      ELSE [d EXCEPT !.out = Append(@, print_regular_access(mem_access))]

\* the continue after check_potential_copy_start is missing: an access that
\* opens or restarts a potential copy is written as a regular access as well
match_copy_to_mem_accesses_start_falls_through(d, mem_access) ==
  LET o == part_of_ongoing_copy(d, mem_access)
      p == part_of_potential_copy(d, mem_access)
      c == check_potential_copy_start(d, mem_access)
  IN  IF o.matched THEN o.d
      ELSE IF p.matched THEN p.d
      ELSE IF c.matched
      THEN [c.d EXCEPT !.out = Append(@, print_regular_access(mem_access))]
      ELSE [d EXCEPT !.out = Append(@, print_regular_access(mem_access))]

\* one iteration of the loop over mem_accesses
match_copy_to_mem_accesses(d, mem_access) ==
  LET o == part_of_ongoing_copy(d, mem_access)
      p == part_of_potential_copy(d, mem_access)
      c == check_potential_copy_start(d, mem_access)
  IN  IF o.matched THEN o.d
      ELSE IF p.matched THEN p.d
      ELSE IF c.matched THEN c.d
      ELSE [d EXCEPT !.out = Append(@, print_regular_access(mem_access))]

\* lines.by_ref().take(COPY_WINDOW).filter_map(parse_kernel_line).collect()
RECURSIVE TakeWindow(_, _)
TakeWindow(d, n) ==
  IF n = 0 \/ d.copy_logs = <<>>
  THEN d
  ELSE LET p == parse_kernel_line(Head(d.copy_logs), d.next_id)
           read == [d EXCEPT !.copy_logs = Tail(@), !.next_id = p.next_id]
       IN  TakeWindow(IF p.some
                      THEN [read EXCEPT !.copy_window = Append(@, p.rec),
                                        !.loaded = Append(@, 0)]
                      ELSE read,
                      n - 1)

\* the detector when match_copy_to_mem_accesses is entered
add_rowclone_info(kernel_log) ==
  TakeWindow([copy_window |-> <<>>, copy_logs |-> kernel_log, next_id |-> 0,
              potential_copies |-> <<>>, ongoing_copies |-> <<>>, rowclones |-> 0,
              out |-> <<>>, retired |-> <<>>, loaded |-> <<>>],
             COPY_WINDOW)

\* the detector's part of the state as the handlers take it
DetState ==
  [copy_window |-> copy_window, copy_logs |-> copy_logs,
   next_id |-> next_kernel_rec_id, potential_copies |-> potential_copies,
   ongoing_copies |-> ongoing_copies, rowclones |-> rowclones, out |-> <<>>,
   retired |-> retired, loaded |-> loaded]

IsRowclone(line) == line.kind = "rowclone"
IsRegular(line) == line.kind = "regular"

DetSet(d) ==
  /\ copy_window' = d.copy_window
  /\ copy_logs' = d.copy_logs
  /\ next_kernel_rec_id' = d.next_id
  /\ potential_copies' = d.potential_copies
  /\ ongoing_copies' = d.ongoing_copies
  /\ rowclones' = d.rowclones
  /\ retired' = d.retired
  /\ loaded' = d.loaded
  /\ emitted' = d.out
  /\ rowclone_out' = rowclone_out \o SelectSeq(d.out, IsRowclone)
  /\ regular_out' = regular_out + Len(SelectSeq(d.out, IsRegular))

\* the copy of a stream that performs none
NoScenario == [from |-> 0, to |-> 0, size |-> 0, size_class |-> 0]

\* add_rowclone_info up to the first access
DetStart(kernel_log, script, scen) ==
  LET d == add_rowclone_info(kernel_log)
  IN  /\ copy_window = d.copy_window
      /\ copy_logs = d.copy_logs
      /\ next_kernel_rec_id = d.next_id
      /\ potential_copies = d.potential_copies
      /\ ongoing_copies = d.ongoing_copies
      /\ rowclones = d.rowclones
      /\ retired = d.retired
      /\ loaded = d.loaded
      /\ emitted = <<>>
      /\ rowclone_out = <<>>
      /\ regular_out = 0
      /\ accessed = 0
      /\ mem_accesses = script
      /\ scenario = scen
      /\ dpc = "run"

\* while let Some(mem_access) = mem_accesses.next() { ... }
DetAccess(mem_access) ==
  /\ dpc = "run"
  /\ DetSet(match_copy_to_mem_accesses(DetState, mem_access))
  /\ accessed' = accessed + 1
  /\ UNCHANGED <<scenario, dpc>>

\* the two address pairs the intents of the model use
Slots == {0, 1}
KernelAddr(s) == PAGE_SIZE * (2 * s + 1)
UserAddr(s) == PAGE_SIZE * (2 * s + 2)
\* slot 0 is copied kernel to user ('r'), slot 1 user to kernel ('w')
SlotOp(s) == IF s = 0 THEN "r" ELSE "w"
SlotFrom(s) == IF SlotOp(s) = "r" THEN KernelAddr(s) ELSE UserAddr(s)
SlotTo(s) == IF SlotOp(s) = "r" THEN UserAddr(s) ELSE KernelAddr(s)

\* sizes the intents declare: slot 0 below or above the confidence
\* threshold, slot 1 a single byte
SlotSizes(s) == IF s = 0 THEN {1, 6} ELSE {1}
\* size classes of the accesses to a slot
SlotClasses(s) == IF s = 0 THEN {0, 1} ELSE {0}
\* offsets of the loads and of the stores offered along a slot
LoadOffsets(s) == IF s = 0 THEN {0, 1} ELSE {0}
StoreOffsets(s) == IF s = 0 THEN {0, 2, 4} ELSE {0}

SlotLines(s) ==
  {KernelLine(SlotOp(s), z, KernelAddr(s), KernelAddr(s), UserAddr(s)) :
     z \in SlotSizes(s)}

KernelLines == {GarbledLine} \cup UNION {SlotLines(s) : s \in Slots}

KernelLogs == [1 .. MaxKernelLines -> KernelLines]

SlotLoads(insn_count, s) ==
  {Access(insn_count, 0, c, SlotFrom(s) + o) :
     o \in LoadOffsets(s), c \in SlotClasses(s)}

SlotStores(insn_count, s) ==
  {Access(insn_count, 1, c, SlotTo(s) + o) :
     o \in StoreOffsets(s), c \in SlotClasses(s)}

\* the accesses offered at each step: loads along the sources, stores
\* along the destinations, and a store that belongs to no copy
DetAlphabet(insn_count) ==
  UNION {SlotLoads(insn_count, s) \cup SlotStores(insn_count, s) : s \in Slots}
  \cup {Access(insn_count, 1, 0, SlotFrom(0))}

\* the next access of a stream that is not scripted
DetFeed ==
  /\ accessed < MaxAccesses
  /\ mem_accesses = <<>>
  /\ \E mem_access \in DetAlphabet(10 + accessed) : DetAccess(mem_access)
  /\ UNCHANGED <<mem_accesses, notDet>>

\* the next access of a scripted stream
DetScripted ==
  /\ mem_accesses # <<>>
  /\ DetAccess(Head(mem_accesses))
  /\ mem_accesses' = Tail(mem_accesses)
  /\ UNCHANGED notDet

\* the stream has ended: the counters are reported
DetEnd ==
  /\ dpc = "run"
  /\ dpc' = "done"
  /\ UNCHANGED <<copy_window, copy_logs, next_kernel_rec_id, potential_copies,
                 ongoing_copies, rowclones, mem_accesses, accessed, emitted,
                 rowclone_out, regular_out, retired, loaded, scenario>>

\* eprintln!("Unmatched Rowclones: {}", copy_window.len())
UnmatchedRowclones == Len(copy_window)

DetFinish ==
  /\ mem_accesses = <<>>
  /\ DetEnd
  /\ UNCHANGED notDet

DetNext == DetFeed \/ DetFinish

\* a clean trace: loads covering [A, A + S), then stores covering [B, B + S),
\* every access of size class c
CleanTrace(A, B, S, c) ==
  LET bytes == 2 ^ c
      n == S \div bytes
  IN  [k \in 1 .. (2 * n) |->
         IF k <= n
         THEN Access(10 + k, 0, c, A + (k - 1) * bytes)
         ELSE Access(10 + k, 1, c, B + (k - n - 1) * bytes)]

\* copy sizes above the confidence threshold, and the size classes of a trace
CleanSizes == (COPY_CONFIDENCE_THRESHOLD + 1) .. (COPY_CONFIDENCE_THRESHOLD + 6)
CleanClasses == {0, 1, 2}

\* the window holds one intent; the stream is the clean trace of its copy
CleanStart ==
  \E s \in Slots, S \in CleanSizes, c \in CleanClasses :
    /\ S % (2 ^ c) = 0
    /\ DetStart(<<KernelLine(SlotOp(s), S, KernelAddr(s), KernelAddr(s), UserAddr(s))>>,
                CleanTrace(SlotFrom(s), SlotTo(s), S, c),
                [from |-> SlotFrom(s), to |-> SlotTo(s), size |-> S,
                 size_class |-> c])

CleanNext == DetScripted \/ DetFinish

\* scripted streams over one kernel-to-user copy and its neighbourhood: the
\* intents declare KernelAddr(0) -> UserAddr(0), the same copy into a user
\* buffer that starts 2 bytes into the page, and a copy whose source is the
\* address at which a 2-byte load of KernelAddr(0) leaves the load cursor
ScriptLen == 5
ScriptCursor == (KernelAddr(0) + 1) * 2
ScriptIntents ==
  {KernelLine("r", 6, KernelAddr(0), KernelAddr(0), UserAddr(0)),
   KernelLine("r", 6, KernelAddr(0), KernelAddr(0), UserAddr(0) + 2),
   KernelLine("r", 6, ScriptCursor, ScriptCursor, UserAddr(1))}

\* the first line is garbled, so the initial window holds one intent and the
\* second enters when the first is retired; or the window starts with two
\* intents and the log goes on with a garbled line and one more intent
ScriptLogs ==
  {<<GarbledLine, x, y>> : x \in ScriptIntents, y \in ScriptIntents}
  \cup {<<KernelLine("r", 6, KernelAddr(0), KernelAddr(0), UserAddr(0)), y,
          GarbledLine, KernelLine("r", 6, KernelAddr(0), KernelAddr(0), UserAddr(0))>> :
          y \in ScriptIntents}

\* 2-byte accesses: [store, address]
ScriptShapes ==
  {<<0, KernelAddr(0)>>, <<0, ScriptCursor>>,
   <<1, UserAddr(0)>>, <<1, UserAddr(0) + 2>>, <<1, UserAddr(0) + 4>>}

Scripts ==
  {[k \in 1 .. ScriptLen |-> Access(10 + k, sh[k][1], 1, sh[k][2])] :
     sh \in [1 .. ScriptLen -> ScriptShapes]}

ScriptStart ==
  \E kernel_log \in ScriptLogs, script \in Scripts :
    DetStart(kernel_log, script, NoScenario)

ScriptNext == DetScripted \/ DetFinish

(***************************************************************************)
(* Record codec: src/log_parser.rs and src/memory_access.rs.  Text is a    *)
(* sequence of one-character strings, a buffer a sequence of bytes.        *)
(***************************************************************************)

DecDigits == <<"0", "1", "2", "3", "4", "5", "6", "7", "8", "9">>
HexDigits == DecDigits \o <<"a", "b", "c", "d", "e", "f">>
UpperHex == <<"A", "B", "C", "D", "E", "F">>

\* value of a digit in the radix, -1 for a character that is none
DigitValue(c, radix) ==
  LET lower == {k \in 1 .. radix : HexDigits[k] = c}
      upper == {k \in 1 .. 6 : UpperHex[k] = c /\ 10 + k <= radix}
  IN  IF lower # {} THEN (CHOOSE k \in lower : TRUE) - 1
      ELSE IF upper # {} THEN 9 + (CHOOSE k \in upper : TRUE)
      ELSE -1

\* "{}" of an unsigned integer
RECURSIVE ToDec(_)
ToDec(v) ==
  IF v < 10 THEN <<DecDigits[v + 1]>>
  ELSE Append(ToDec(v \div 10), DecDigits[(v % 10) + 1])

\* the last n hexadecimal digits of v
RECURSIVE HexTail(_, _)
HexTail(v, n) ==
  IF n = 0 THEN <<>>
  ELSE Append(HexTail(v \div 16, n - 1), HexDigits[(v % 16) + 1])

\* "0x{:016x}" of a u64, which has at most 16 hexadecimal digits
ToHex016(v) == <<"0", "x">> \o HexTail(v, 16)

Comma == <<",">>

\* s.trim(): white space is dropped at both ends
RECURSIVE Trim(_)
Trim(s) ==
  IF s = <<>> THEN s
  ELSE IF Head(s) \in {" ", "\n"} THEN Trim(Tail(s))
  ELSE IF s[Len(s)] \in {" ", "\n"} THEN Trim(SubSeq(s, 1, Len(s) - 1))
  ELSE s

\* s.split(','): always at least one part
RECURSIVE Split(_)
Split(s) ==
  LET commas == {k \in 1 .. Len(s) : s[k] = ","}
  IN  IF commas = {} THEN <<s>>
      ELSE LET k == CHOOSE j \in commas : \A i \in commas : j <= i
           IN  <<SubSeq(s, 1, k - 1)>> \o Split(SubSeq(s, k + 1, Len(s)))

\* s.trim_start_matches("0x"): every leading repetition is dropped
RECURSIVE TrimStart0x(_)
TrimStart0x(s) ==
  IF Len(s) >= 2 /\ s[1] = "0" /\ s[2] = "x"
  THEN TrimStart0x(SubSeq(s, 3, Len(s)))
  ELSE s

\* value of a string of digits
RECURSIVE DigitsValue(_, _)
DigitsValue(s, radix) ==
  IF s = <<>> THEN 0
  ELSE DigitsValue(SubSeq(s, 1, Len(s) - 1), radix) * radix
         + DigitValue(s[Len(s)], radix)

\* leading zeros dropped
RECURSIVE Significant(_)
Significant(s) ==
  IF s # <<>> /\ Head(s) = "0" THEN Significant(Tail(s)) ELSE s

\* from_str_radix / parse of an unsigned integer of the given width: an
\* optional '+', then one digit or more; too many digits or a value above
\* max overflow.  The texts used keep every value below 2^31.
ParseUnsigned(s, radix, max_digits, max) ==
  LET body == IF s # <<>> /\ Head(s) = "+" THEN Tail(s) ELSE s
  IN  IF body = <<>> \/ \E k \in 1 .. Len(body) : DigitValue(body[k], radix) < 0
      THEN [ok |-> FALSE, value |-> 0]
      ELSE IF Len(Significant(body)) > max_digits
      THEN [ok |-> FALSE, value |-> 0]
      ELSE IF DigitsValue(body, radix) > max
      THEN [ok |-> FALSE, value |-> 0]
      ELSE [ok |-> TRUE, value |-> DigitsValue(body, radix)]

\* a u64 has at most 20 decimal and 16 hexadecimal digits; 2^31 - 1 is the
\* largest value the texts of the model denote
ParseU64(s) == ParseUnsigned(s, 10, 20, 2147483647)
ParseU8(s) == ParseUnsigned(s, 10, 3, 255)
ParseHexU64(s) == ParseUnsigned(s, 16, 16, 2147483647)

\* the n bytes of v, least significant first
RECURSIVE LeBytes(_, _)
LeBytes(v, n) ==
  IF n = 0 THEN <<>> ELSE <<v % 256>> \o LeBytes(v \div 256, n - 1)

ReverseSeq(s) == [k \in 1 .. Len(s) |-> s[Len(s) + 1 - k]]

\* a u64 in memory, and back
U64Bytes(v, big) == IF big THEN ReverseSeq(LeBytes(v, 8)) ELSE LeBytes(v, 8)

RECURSIVE LeValue(_)
LeValue(b) == IF b = <<>> THEN 0 ELSE b[1] + 256 * LeValue(Tail(b))

U64Value(b, big) == IF big THEN LeValue(ReverseSeq(b)) ELSE LeValue(b)

\* #[repr(C)] struct LogRecord: insn_count at 0, cpu at 8, store at 9, size
\* at 10, five bytes of padding, address at 16; 24 bytes.  serialize copies
\* the object, padding included, whose bytes are whatever memory held.
serialize(rec, padding, big) ==
  U64Bytes(rec.insn_count, big) \o <<rec.cpu, rec.store, rec.size>> \o padding
    \o U64Bytes(rec.address, big)

\* the fields read with store and size in each other's place
deserialize_swapped(buffer, big) ==
  [insn_count |-> U64Value(SubSeq(buffer, 1, 8), big),
   cpu |-> buffer[9], store |-> buffer[11], size |-> buffer[10],
   address |-> U64Value(SubSeq(buffer, 17, 24), big)]

\* ptr::read_unaligned of the buffer as a LogRecord
deserialize(buffer, big) ==
  [insn_count |-> U64Value(SubSeq(buffer, 1, 8), big),
   cpu |-> buffer[9], store |-> buffer[10], size |-> buffer[11],
   address |-> U64Value(SubSeq(buffer, 17, 24), big)]

\* impl Display for LogRecord
LogRecordDisplay(rec) ==
  ToDec(rec.insn_count) \o Comma \o ToDec(rec.cpu) \o Comma
    \o ToDec(rec.store) \o Comma \o ToDec(rec.size) \o Comma
    \o ToHex016(rec.address)

\* impl FromStr for LogRecord: Ok(record) or Err
LogRecordFromStr(s) ==
  LET parts == Split(Trim(s))
  IN  IF Len(parts) # 5 THEN [kind |-> "err"]
      ELSE LET insn_count == ParseU64(parts[1])
               cpu == ParseU8(parts[2])
               store == ParseU8(parts[3])
               size == ParseU8(parts[4])
               address == ParseHexU64(TrimStart0x(parts[5]))
           IN  IF insn_count.ok /\ cpu.ok /\ store.ok /\ size.ok /\ address.ok
               THEN [kind |-> "ok",
                     rec |-> [insn_count |-> insn_count.value, cpu |-> cpu.value,
                              store |-> store.value, size |-> size.value,
                              address |-> address.value]]
               ELSE [kind |-> "err"]

\* impl Display for MemRecord and for RowcloneRecord
MemRecordDisplay(rec) ==
  IF rec.store
  THEN ToDec(rec.insn_count) \o Comma \o <<"-", "1">> \o Comma \o ToHex016(rec.address)
  ELSE ToDec(rec.insn_count) \o Comma \o ToHex016(rec.address)

RowcloneRecordDisplay(rec) ==
  ToDec(rec.insn_count) \o Comma \o ToHex016(rec.from) \o Comma \o ToHex016(rec.to)

\* parse_hex_addr: the value, or the panic of expect
parse_hex_addr(addr) == ParseHexU64(TrimStart0x(addr))

\* impl FromStr for MemoryAccess: Ok(access), Err, or a panic of expect
MemoryAccessFromStr(s) ==
  LET parts == Split(Trim(s))
      insn_count == ParseU64(parts[1])
      AddrAt(k) == parse_hex_addr(parts[k])
  IN  IF ~insn_count.ok THEN [kind |-> "panic"]
      ELSE IF Len(parts) = 4
      THEN IF AddrAt(2).ok /\ AddrAt(3).ok
           THEN [kind |-> "ok",
                 rec |-> [kind |-> "rowclone", insn_count |-> insn_count.value,
                          from |-> AddrAt(2).value, to |-> AddrAt(3).value]]
           ELSE [kind |-> "panic"]
      ELSE IF Len(parts) = 3
      THEN IF AddrAt(3).ok
           THEN [kind |-> "ok",
                 rec |-> [kind |-> "regular", insn_count |-> insn_count.value,
                          address |-> AddrAt(3).value, store |-> TRUE]]
           ELSE [kind |-> "panic"]
      ELSE IF Len(parts) = 2
      THEN IF AddrAt(2).ok
           THEN [kind |-> "ok",
                 rec |-> [kind |-> "regular", insn_count |-> insn_count.value,
                          address |-> AddrAt(2).value, store |-> FALSE]]
           ELSE [kind |-> "panic"]
      ELSE [kind |-> "err"]

\* the records the codec is run on
CodecRecords ==
  [insn_count : {10, 1234567}, cpu : {0, 255}, store : {0, 1}, size : {0, 3},
   address : {0, 4096, 11259375}]

\* what the five bytes of padding may hold
Paddings == {<<0, 0, 0, 0, 0>>, <<255, 1, 2, 3, 4>>}

RECURSIVE JoinFields(_)
JoinFields(fields) ==
  IF Len(fields) = 1 THEN fields[1]
  ELSE fields[1] \o Comma \o JoinFields(Tail(fields))

\* fields that parse, and fields that do not
TenText == <<"1", "0">>
AddrText == ToHex016(4096)
NotANumber == <<"x">>
NotHex == <<"0", "x", "z", "z">>
TooBigForU8 == <<"2", "5", "6">>
MinusOne == <<"-", "1">>

\* lines in the AccessRecord text form: five fields that parse
WellFormedAccessLines ==
  {JoinFields(<<TenText, <<"1">>, <<"0">>, <<"3">>, AddrText>>),
   <<" ">> \o JoinFields(<<TenText, <<"0">>, <<"1">>, <<"0">>, AddrText>>) \o <<"\n">>}

\* a field count other than five, or a field that does not parse
MalformedAccessLines ==
  {<<>>,
   JoinFields(<<TenText, <<"1">>, <<"0">>, AddrText>>),
   JoinFields(<<TenText, <<"1">>, <<"0">>, <<"3">>, AddrText, AddrText>>),
   JoinFields(<<NotANumber, <<"1">>, <<"0">>, <<"3">>, AddrText>>),
   JoinFields(<<TenText, TooBigForU8, <<"0">>, <<"3">>, AddrText>>),
   JoinFields(<<TenText, <<"1">>, <<"0">>, <<"3">>, NotHex>>)}

\* lines in the annotated text form: a load, a store, a copy
WellFormedAnnotatedLines ==
  {JoinFields(<<TenText, AddrText>>),
   JoinFields(<<TenText, MinusOne, AddrText>>),
   JoinFields(<<TenText, AddrText, AddrText, AddrText>>)}

\* one field or more than four, or a field that does not parse
MalformedAnnotatedLines ==
  {TenText,
   JoinFields(<<TenText, <<"1">>, <<"0">>, <<"3">>, AddrText>>),
   JoinFields(<<NotANumber, AddrText>>),
   JoinFields(<<TenText, NotHex>>),
   JoinFields(<<TenText, MinusOne, NotHex>>)}

TextLines ==
  WellFormedAccessLines \cup MalformedAccessLines
    \cup WellFormedAnnotatedLines \cup MalformedAnnotatedLines

NotRun == [kind |-> "none"]

CodecStart(records, lines) ==
  /\ codecRec \in records
  /\ bigEndian \in BOOLEAN
  /\ codecLine \in lines
  /\ codecBuf = <<>>
  /\ codecOut = NotRun
  /\ codecParsed = NotRun
  /\ codecAcc = NotRun

CodecSerialize ==
  /\ \E padding \in Paddings :
       codecBuf' = serialize(codecRec, padding, bigEndian)
  /\ UNCHANGED <<codecRec, bigEndian, codecLine, codecOut, codecParsed, codecAcc>>
  /\ UNCHANGED notCodec

CodecDeserialize ==
  /\ codecBuf # <<>>
  /\ codecOut' = [kind |-> "ok", rec |-> deserialize(codecBuf, bigEndian)]
  /\ UNCHANGED <<codecRec, bigEndian, codecBuf, codecLine, codecParsed, codecAcc>>
  /\ UNCHANGED notCodec

\* writeln!("{}", record)
CodecDisplay ==
  /\ codecLine' = LogRecordDisplay(codecRec)
  /\ UNCHANGED <<codecRec, bigEndian, codecBuf, codecOut, codecParsed, codecAcc>>
  /\ UNCHANGED notCodec

\* line.parse::<LogRecord>()
CodecFromStr ==
  /\ codecParsed' = [text |-> codecLine, res |-> LogRecordFromStr(codecLine),
                     kind |-> "run"]
  /\ UNCHANGED <<codecRec, bigEndian, codecBuf, codecLine, codecOut, codecAcc>>
  /\ UNCHANGED notCodec

\* MemoryAccess::from_str(line)
CodecAccessFromStr ==
  /\ codecAcc' = [text |-> codecLine, res |-> MemoryAccessFromStr(codecLine),
                  kind |-> "run"]
  /\ UNCHANGED <<codecRec, bigEndian, codecBuf, codecLine, codecOut, codecParsed>>
  /\ UNCHANGED notCodec

\* impl Display for MemoryAccess
MemoryAccessDisplay(access) ==
  IF access.kind = "regular"
  THEN MemRecordDisplay(access)
  ELSE RowcloneRecordDisplay(access)

\* destinations of the copies whose records are written
CopyTargets == {PAGE_SIZE, 2 * PAGE_SIZE}

\* what the detector writes for the access codecRec: the regular line of
\* print_regular_access, or the line of print_rowclone for a copy that the
\* access started
AnnotatedFor(rec) ==
  {print_regular_access(rec)}
  \cup {print_rowclone([insn_count |-> rec.insn_count, from |-> rec.address,
                         to |-> to]) : to \in CopyTargets}

\* writeln!(output, "{}", MemRecord { .. }) and writeln!(output, "{}",
\* RowcloneRecord { .. })
CodecDisplayAnnotated ==
  /\ \E access \in AnnotatedFor(codecRec) :
       codecLine' = MemoryAccessDisplay(access)
  /\ UNCHANGED <<codecRec, bigEndian, codecBuf, codecOut, codecParsed, codecAcc>>
  /\ UNCHANGED notCodec

CodecNext ==
  \/ CodecSerialize \/ CodecDeserialize \/ CodecDisplay
  \/ CodecFromStr \/ CodecAccessFromStr

\* the annotated text form between the detector and the cache stage: lines
\* are written for annotated records and parsed back
AnnotatedNext == CodecDisplayAnnotated \/ CodecAccessFromStr

(***************************************************************************)
(* The stages in a row: the merger runs to completion, the detector reads  *)
(* the merged stream with an empty kernel log, the cache stage reads the   *)
(* detector's output.                                                      *)
(***************************************************************************)

\* a line of the detector's output as the cache stage parses it: the entry
\* keeps the cpu of the access that made the detector write it
AnnotatedAccess(line, mem_access) ==
  IF line.kind = "regular"
  THEN [kind |-> "regular", cpu |-> mem_access.cpu,
        insn_count |-> line.insn_count, address |-> line.address,
        store |-> line.store]
  ELSE [kind |-> "rowclone", cpu |-> mem_access.cpu,
        insn_count |-> line.insn_count, from |-> line.from, to |-> line.to]

PipeIdle == annotated = <<>>

\* the detector takes the next record of the merged stream
PipeDetect ==
  /\ mpc = "done"
  /\ accessed < Len(merged)
  /\ LET mem_access == merged[accessed + 1]
         out == match_copy_to_mem_accesses(DetState, mem_access).out
     IN  /\ DetAccess(mem_access)
         /\ annotated' = annotated \o
              [k \in 1 .. Len(out) |-> AnnotatedAccess(out[k], mem_access)]
  /\ UNCHANGED <<mem_accesses, mergeVars, cacheVars, stageVars, codecVars, kernelVars, lookVars>>

\* the merged stream has ended
PipeDetectEnd ==
  /\ mpc = "done"
  /\ accessed = Len(merged)
  /\ DetEnd
  /\ UNCHANGED <<mergeVars, cacheVars, stageVars, pipeVars, codecVars, kernelVars, lookVars>>

\* the cache stage takes the next line of the detector's output
PipeCache ==
  /\ dpc = "done"
  /\ ~stagePanicked
  /\ Len(stageIn) < Len(annotated)
  /\ LET rec == annotated[Len(stageIn) + 1]
     IN  /\ StageSet(StageStep(StageState, rec, overflowChecks))
         /\ stageIn' = Append(stageIn, rec)
  /\ UNCHANGED <<overflowChecks, notStage>>

PipeNext == MergeNext \/ PipeDetect \/ PipeDetectEnd \/ PipeCache

(***************************************************************************)
(* The kernel-log line parser on its own: one line is parsed.  A line is   *)
(* the fields KERNEL_LOG_PATTERN captures: group 2 op, 3 cpu, 4 size,      *)
(* 5 addr1, 6 addr2, 7 kernel_addr, 8 user_addr, named after the grammar.  *)
(***************************************************************************)
FieldAddrs == {PAGE_SIZE, 2 * PAGE_SIZE}
FieldSizes == {1, 6}

FieldLines ==
  {[KernelLine(op, size, addr2, kernel_addr, user_addr) EXCEPT !.addr1 = addr1] :
     op \in {"r", "w"}, size \in FieldSizes, addr1 \in FieldAddrs,
     addr2 \in FieldAddrs, kernel_addr \in FieldAddrs, user_addr \in FieldAddrs}
  \cup {GarbledLine}

KernelStart(lines) ==
  /\ kernelLine \in lines
  /\ kernelRec = NotRun

\* parse_kernel_line(&line)
KernelParse ==
  /\ kernelRec = NotRun
  /\ LET p == parse_kernel_line(kernelLine, next_kernel_rec_id)
     IN  /\ kernelRec' = [kind |-> "run", res |-> p]
         /\ next_kernel_rec_id' = p.next_id
  /\ UNCHANGED <<kernelLine, copy_window, copy_logs, potential_copies,
                 ongoing_copies, rowclones, mem_accesses, accessed, emitted,
                 rowclone_out, regular_out, retired, loaded, scenario, dpc>>
  /\ UNCHANGED notKernel

KernelNext == KernelParse

(***************************************************************************)
(* LookaheadIterator (src/lookahead_iter.rs): an iterator with a buffer of *)
(* items pulled ahead of time.  The underlying iterator is a finite        *)
(* sequence; its next() takes the head and is None once it is empty.       *)
(***************************************************************************)
\* the length of the underlying sequence and the number of distinct items,
\* and the largest n peek_n is called with
MaxItems == 3
MaxPeek == 3

\* LookaheadIterator::new
LookaheadNew(iter) == [iter |-> iter, buffer |-> <<>>]

\* peek_n: the iterator after the call, and the slice it returns
RECURSIVE peek_n(_, _)
peek_n(l, n) ==
  IF Len(l.buffer) < n /\ l.iter # <<>>
  THEN peek_n([iter |-> Tail(l.iter), buffer |-> Append(l.buffer, Head(l.iter))], n)
  ELSE [l |-> l, view |-> l.buffer]

\* the buffer is passed over: the item is pulled from the underlying iterator
LookaheadNextUnbuffered(l) ==
  IF l.iter # <<>>
  THEN [l |-> [l EXCEPT !.iter = Tail(@)], some |-> TRUE, item |-> <<Head(l.iter)>>]
  ELSE [l |-> l, some |-> FALSE, item |-> <<>>]

\* Iterator::next: the iterator after the call, and Some(item) or None
LookaheadNext(l) ==
  IF l.buffer # <<>>
  THEN [l |-> [l EXCEPT !.buffer = Tail(@)], some |-> TRUE,
        item |-> <<Head(l.buffer)>>]
  ELSE IF l.iter # <<>>
  THEN [l |-> [l EXCEPT !.iter = Tail(@)], some |-> TRUE, item |-> <<Head(l.iter)>>]
  ELSE [l |-> l, some |-> FALSE, item |-> <<>>]

\* the sequences of at most n items
SeqsUpTo(n) == UNION {[1 .. k -> 1 .. MaxItems] : k \in 0 .. n}

LookStart(sources) ==
  /\ lookSource \in sources
  /\ lookahead = LookaheadNew(lookSource)
  /\ lookTaken = <<>>
  /\ lookLast = [call |-> "new"]

\* a call of peek_n(n)
LookPeek ==
  /\ \E n \in 0 .. MaxPeek :
       LET r == peek_n(lookahead, n)
       IN  /\ lookahead' = r.l
           /\ lookLast' = [call |-> "peek_n", n |-> n, view |-> r.view]
  /\ UNCHANGED <<lookSource, lookTaken>>
  /\ UNCHANGED notLook

\* a call of next()
LookNext ==
  /\ LET r == LookaheadNext(lookahead)
     IN  /\ lookahead' = r.l
         /\ lookTaken' = lookTaken \o r.item
         /\ lookLast' = [call |-> "next", some |-> r.some]
  /\ UNCHANGED lookSource
  /\ UNCHANGED notLook

LookaheadNextStep == LookPeek \/ LookNext

(***************************************************************************)
(* Specifications: one per program.  The variables of the other programs   *)
(* stay in their start state.                                              *)
(***************************************************************************)
\* a build's overflow behaviour matters to the cache stage alone
StageIdle == StageStart(NumCpus) /\ overflowChecks = FALSE
DetIdle == DetStart(<<>>, <<>>, NoScenario)
CodecIdle ==
  CodecStart({[insn_count |-> 0, cpu |-> 0, store |-> 0, size |-> 0, address |-> 0]},
             {<<>>})
  /\ bigEndian = FALSE

KernelIdle == KernelStart({GarbledLine})
LookIdle == LookStart({<<>>})

MergeInit == MergeStart /\ CacheStart /\ StageIdle /\ DetIdle /\ PipeIdle /\ CodecIdle /\ KernelIdle /\ LookIdle
MergeSpec == MergeInit /\ [][MergeNext]_vars

CacheInit == CacheStart /\ MergeStart /\ StageIdle /\ DetIdle /\ PipeIdle /\ CodecIdle /\ KernelIdle /\ LookIdle
CacheSpec == CacheInit /\ [][CacheNext]_vars

\* the cache of src/cache.rs, which has access only
LibCacheStart ==
  /\ cache = LibCacheNew(CacheBytes, BlockBytes, Associativity)
  /\ cacheOps = <<>>
  /\ cachePanicked = FALSE

LibCacheInit == LibCacheStart /\ MergeStart /\ StageIdle /\ DetIdle /\ PipeIdle /\ CodecIdle /\ KernelIdle /\ LookIdle
LibCacheNext == CacheDoAccess
LibCacheSpec == LibCacheInit /\ [][LibCacheNext]_vars

StageInit == StageStart(NumCpus) /\ MergeStart /\ CacheStart /\ DetIdle /\ PipeIdle /\ CodecIdle /\ KernelIdle /\ LookIdle
StageSpec == StageInit /\ [][StageNext]_vars

DetInit ==
  /\ \E kernel_log \in KernelLogs : DetStart(kernel_log, <<>>, NoScenario)
  /\ MergeStart /\ CacheStart /\ StageIdle /\ PipeIdle /\ CodecIdle /\ KernelIdle /\ LookIdle
DetSpec == DetInit /\ [][DetNext]_vars

CleanInit ==
  CleanStart /\ MergeStart /\ CacheStart /\ StageIdle /\ PipeIdle /\ CodecIdle /\ KernelIdle /\ LookIdle
CleanSpec == CleanInit /\ [][CleanNext]_vars

ScriptInit ==
  ScriptStart /\ MergeStart /\ CacheStart /\ StageIdle /\ PipeIdle /\ CodecIdle /\ KernelIdle /\ LookIdle
ScriptSpec == ScriptInit /\ [][ScriptNext]_vars

\* one bank per source, no kernel intents
PipeInit ==
  /\ MergeStart /\ CacheStart /\ StageStart(NumSources)
  /\ DetStart(<<>>, <<>>, NoScenario) /\ PipeIdle /\ CodecIdle /\ KernelIdle /\ LookIdle
PipeSpec == PipeInit /\ [][PipeNext]_vars

CodecInit ==
  /\ CodecStart(CodecRecords, TextLines)
  /\ MergeStart /\ CacheStart /\ StageIdle /\ DetIdle /\ PipeIdle /\ KernelIdle /\ LookIdle
CodecSpec == CodecInit /\ [][CodecNext]_vars

LookInit ==
  /\ LookStart(SeqsUpTo(MaxItems))
  /\ MergeStart /\ CacheStart /\ StageIdle /\ DetIdle /\ PipeIdle /\ CodecIdle /\ KernelIdle
LookSpec == LookInit /\ [][LookaheadNextStep]_vars

AnnotatedInit ==
  /\ CodecStart(CodecRecords, WellFormedAnnotatedLines)
  /\ MergeStart /\ CacheStart /\ StageIdle /\ DetIdle /\ PipeIdle /\ KernelIdle /\ LookIdle
AnnotatedSpec == AnnotatedInit /\ [][AnnotatedNext]_vars

KernelInit ==
  /\ KernelStart(FieldLines)
  /\ MergeStart /\ CacheStart /\ StageIdle /\ DetIdle /\ PipeIdle /\ CodecIdle /\ LookIdle
KernelSpec == KernelInit /\ [][KernelNext]_vars

(***************************************************************************)
(* Claims about the stream merger, checked under MergeSpec.                *)
(***************************************************************************)
\* every source is non-decreasing in insn_count
SourcesSorted == \A i \in Sources : NonDecreasing(parsers[i])

\* the records buffered in the heap, as a bag
HeapBag == SeqBag([k \in 1 .. Cardinality(heap) |->
             (CHOOSE f \in [1 .. Cardinality(heap) -> heap] :
                \A a, b \in 1 .. Cardinality(heap) : a # b => f[a] # f[b])[k][1]])

\* C1: when every source is non-decreasing in insn_count, the records
\* written by the merge loop are non-decreasing in insn_count and the
\* out-of-order warning is never printed.
C1_MergeSortedOutput ==
  SourcesSorted => NonDecreasing(merged) /\ warnings = 0

\* a finished run over sorted sources in which two sources interleave
C1_Witness ==
  /\ mpc = "done"
  /\ SourcesSorted
  /\ Len(merged) = MaxRecords
  /\ \E p \in 1 .. Len(merged) - 2 :
       /\ mergedFrom[p] # mergedFrom[p + 1]
       /\ mergedFrom[p] = mergedFrom[p + 2]
       /\ merged[p].insn_count < merged[p + 2].insn_count

\* C2: when no read fails, every record a source delivered is either written
\* or still buffered, exactly once (sorted sources or not); the loop can
\* always take its next step until it ends, and it ends having written
\* exactly the T records of the sources, as a multiset.  An out-of-order pop
\* only counts a warning.
C2_MergeTotality ==
  readErr = {} =>
    /\ SeqBag(merged) (+) HeapBag = SourcesBag(parsers, Sources)
    /\ Len(merged) = Len(mergedFrom)
    /\ mpc # "done" => ENABLED MergeNext
    /\ mpc = "done" =>
         /\ Len(merged) = SumLens(parsers, Sources)
         /\ SeqBag(merged) = SourcesBag(parsers, Sources)

\* a finished run over unsorted sources: a warning was printed and all
\* MaxRecords records were still written
C2_Witness ==
  /\ mpc = "done"
  /\ readErr = {}
  /\ warnings > 0
  /\ ~SourcesSorted
  /\ Len(merged) = MaxRecords
  /\ SumLens(parsers, Sources) = MaxRecords

\* C3: for sorted sources, of any two written records with the same
\* insn_count from different sources, the one from the lower source index
\* is written first.
C3_MergeTieBreak ==
  SourcesSorted =>
    \A p \in 1 .. Len(merged) : \A q \in p .. Len(merged) :
      merged[p].insn_count = merged[q].insn_count => mergedFrom[p] <= mergedFrom[q]

\* source 0 delivers two records with the insn_count of source 1's record; the
\* second one was not buffered when the tie was first decided, and is still
\* written before source 1's record
C3_Witness ==
  /\ mpc = "done"
  /\ SourcesSorted
  /\ \E p \in 1 .. Len(merged) - 2 :
       /\ mergedFrom[p] = 0 /\ mergedFrom[p + 1] = 0 /\ mergedFrom[p + 2] = 1
       /\ merged[p].insn_count = merged[p + 2].insn_count
       /\ merged[p + 1].insn_count = merged[p + 2].insn_count

(***************************************************************************)
(* Claims about the cache, checked under CacheSpec.                        *)
(***************************************************************************)
BlockOf(address) == address \div cache.block_size
SetIndexOf(address) == BlockOf(address) % NumSets(cache)

\* the accesses made so far that map to set x, in order
AccessesOfSet(x) ==
  LET InSet(o) == o.op = "access" /\ SetIndexOf(o.arg) = x
  IN SelectSeq(cacheOps, InSet)

NoInvalidation == \A k \in 1 .. Len(cacheOps) : cacheOps[k].op = "access"

\* the first Associativity + 1 accesses to set x went to distinct blocks
DistinctFill(x) ==
  LET t == AccessesOfSet(x)
  IN /\ Len(t) >= Associativity + 1
     /\ \A a, b \in 1 .. (Associativity + 1) :
          a # b => BlockOf(t[a].arg) # BlockOf(t[b].arg)

\* C5: from an empty set of associativity k, k+1 accesses to distinct blocks of
\* that set all miss and evict exactly the first block: a repeat access to the
\* first address then misses, and a repeat access to any of the other k hits.
C5_LruEviction ==
  \A x \in DOMAIN cache.sets :
    LET t == AccessesOfSet(x)
        k == Associativity
    IN NoInvalidation /\ DistinctFill(x) =>
         /\ \A a \in 1 .. (k + 1) : ~t[a].hit
         /\ Len(t) = k + 1 =>
              /\ ~CacheAccess(cache, t[1].arg).hit
              /\ \A a \in 2 .. (k + 1) : CacheAccess(cache, t[a].arg).hit
         /\ Len(t) > k + 1 =>
              /\ BlockOf(t[k + 2].arg) = BlockOf(t[1].arg) => ~t[k + 2].hit
              /\ (\E a \in 2 .. (k + 1) : BlockOf(t[k + 2].arg) = BlockOf(t[a].arg))
                   => t[k + 2].hit

\* k+1 distinct blocks of one set were accessed and the first was accessed
\* again, and missed
C5_Witness ==
  \E x \in DOMAIN cache.sets :
    LET t == AccessesOfSet(x)
    IN /\ NoInvalidation
       /\ DistinctFill(x)
       /\ Len(t) = Associativity + 2
       /\ t[Associativity + 2].arg = t[1].arg
       /\ ~t[Associativity + 2].hit

\* block b lies inside the page [P, P + 4096)
BlockInPage(b, P) ==
  /\ b * BlockBytes >= P
  /\ (b + 1) * BlockBytes <= P + PAGE_SIZE

\* the step is a completed call invalidate_page(P)
InvalidatedPage(P) ==
  /\ Len(cacheOps') = Len(cacheOps) + 1
  /\ cacheOps'[Len(cacheOps')].op = "invalidate_page"
  /\ cacheOps'[Len(cacheOps')].arg = P
  /\ ~cachePanicked'

\* C6: invalidate_page(P) clears exactly the lines whose block lies inside
\* [P, P + 4096); every other line keeps its tag in its slot, and the LRU order
\* of a set is the old order with the cleared slots removed.
C6_InvalidationScoping ==
  [][\A P \in InvalidateAddrs : InvalidatedPage(P) =>
       \A x \in DOMAIN cache.sets :
         LET old == cache.sets[x]
             new == cache'.sets[x]
             Cleared(j) == old.lines[j] # <<>> /\ BlockInPage(old.lines[j][1], P)
             Kept(j) == ~Cleared(j)
         IN /\ \A j \in DOMAIN old.lines :
                 new.lines[j] = IF Cleared(j) THEN <<>> ELSE old.lines[j]
            /\ new.lru_order = SelectSeq(old.lru_order, Kept)]_vars

\* a page was invalidated right after one of its blocks was accessed; that
\* block is gone and two blocks of another page are still resident
C6_Witness ==
  /\ Len(cacheOps) >= 2
  /\ ~cachePanicked
  /\ LET last == cacheOps[Len(cacheOps)]
         before == cacheOps[Len(cacheOps) - 1]
     IN /\ last.op = "invalidate_page"
        /\ before.op = "access"
        /\ BlockInPage(BlockOf(before.arg), last.arg)
        /\ BlockOf(before.arg) \notin Resident(cache)
        /\ \E x \in DOMAIN cache.sets : Len(cache.sets[x].lru_order) >= 2

(***************************************************************************)
(* Claims about the cache stage, checked under StageSpec.                  *)
(***************************************************************************)
\* the addresses of page P the stage may be asked for
PageAddrs(P) == {a \in StageAddrs : a >= P /\ a < P + PAGE_SIZE}

\* C7: right after the stage has processed a CopyRecord with destination page
\* D, no bank of any CPU holds a block of [D, D + 4096), and a regular access
\* by any CPU to an address of that page misses.
C7_CopyInvalidatesAllBanks ==
  Len(stageIn) > 0 =>
    LET last == stageIn[Len(stageIn)]
    IN last.kind = "rowclone" /\ last.to % PAGE_SIZE = 0 =>
         \A c \in DOMAIN caches :
           /\ \A b \in Resident(caches[c]) : ~BlockInPage(b, last.to)
           /\ \A a \in PageAddrs(last.to) : ~CacheAccess(caches[c], a).hit

\* CPU 0 cached a block of the page, then a CopyRecord of CPU 1 to that page
\* was processed and written
C7_Witness ==
  /\ Len(stageIn) = 2
  /\ ~stagePanicked
  /\ stageIn[1].kind = "regular" /\ stageIn[1].cpu = 0
  /\ stageIn[2].kind = "rowclone" /\ stageIn[2].cpu = 1
  /\ stageIn[1].address \in PageAddrs(stageIn[2].to)
  /\ Len(writers[1]) = 1

\* what the filter rule asks for: bank[c] is the cache bank of CPU c and out[c]
\* the entries owed to CPU c after the records of hist, where a regular access
\* is looked up in the bank of its own CPU and owed when it misses, and a
\* CopyRecord invalidates its page in every bank and is always owed
RECURSIVE FilterRule(_, _)
FilterRule(hist, n) ==
  IF hist = <<>>
  THEN [bank |-> [c \in 0 .. (n - 1) |-> CacheNew(CacheBytes, BlockBytes, Associativity)],
        out |-> [c \in 0 .. (n - 1) |-> <<>>]]
  ELSE LET before == FilterRule(SubSeq(hist, 1, Len(hist) - 1), n)
           rec == hist[Len(hist)]
       IN IF rec.kind = "regular"
          THEN LET r == CacheAccess(before.bank[rec.cpu], rec.address)
               IN [bank |-> [before.bank EXCEPT ![rec.cpu] = r.cache],
                   out |-> IF r.hit THEN before.out
                           ELSE [before.out EXCEPT ![rec.cpu] =
                                   Append(@, [kind |-> IF rec.store THEN "store" ELSE "load",
                                              address |-> rec.address])]]
          ELSE IF rec.kind = "rowclone"
          THEN [bank |-> [c \in 0 .. (n - 1) |->
                            CacheInvalidatePage(before.bank[c], rec.to).cache],
                out |-> [before.out EXCEPT ![rec.cpu] =
                           Append(@, [kind |-> "copy", from |-> rec.from, to |-> rec.to])]]
          ELSE before

\* a written line without its bubble
WrittenEntry(line) ==
  IF line.kind = "copy" THEN [kind |-> "copy", from |-> line.from, to |-> line.to]
  ELSE [kind |-> line.kind, address |-> line.address]

\* every CopyRecord read so far has a page-aligned destination
CopiesAligned ==
  \A k \in 1 .. Len(stageIn) :
    stageIn[k].kind = "rowclone" => stageIn[k].to % PAGE_SIZE = 0

\* C8: for any sequence of annotated records (CopyRecords page aligned), the
\* lines written for a CPU are exactly the regular accesses of that CPU that
\* missed in its own bank plus every CopyRecord of that CPU, in input order.
C8_FilterRule ==
  CopiesAligned =>
    \A c \in DOMAIN writers :
      /\ Len(writers[c]) = Len(FilterRule(stageIn, Cardinality(DOMAIN caches)).out[c])
      /\ \A k \in 1 .. Len(writers[c]) :
           WrittenEntry(writers[c][k]) =
             FilterRule(stageIn, Cardinality(DOMAIN caches)).out[c][k]

(***************************************************************************)
(* Claims about the detector, checked under CleanSpec and DetSpec.         *)
(***************************************************************************)

\* C4: on a clean trace of the one copy the window's intent declares (size
\* above the confidence threshold, accesses of any size class) none of the
\* loads and stores is written as a regular access, and when the stream has
\* ended exactly one CopyRecord has been written, with from = A and to = B.
C4_CleanTraceCompleteness ==
  /\ regular_out = 0
  /\ Len(rowclone_out) <= 1
  /\ dpc = "done" =>
       /\ Len(rowclone_out) = 1
       /\ rowclone_out[1].from = scenario.from
       /\ rowclone_out[1].to = scenario.to

\* retirements of intents newer than id since id was loaded
StaleCount(id) ==
  Cardinality({j \in (loaded[id + 1] + 1) .. Len(retired) : retired[j] > id})

InWindow(id) == \E k \in 1 .. Len(copy_window) : copy_window[k].rec_id = id

\* C10: the staleness counter of an intent in the window is the number of
\* retirements of intents with a larger id since it was loaded (each adds
\* exactly one, retirements of smaller ids add nothing); an intent that was
\* not retired itself is in the window exactly while that number is at most
\* the staleness threshold, so it is gone at the retirement that makes the
\* number threshold + 1.
C10_StalenessEviction ==
  /\ \A k \in 1 .. Len(copy_window) :
       /\ copy_window[k].stale = StaleCount(copy_window[k].rec_id)
       /\ copy_window[k].stale <= COPY_WINDOW_STALE_THRESHOLD
  /\ \A id \in 0 .. (Len(loaded) - 1) :
       InWindow(id) <=>
         /\ id \notin Range(retired)
         /\ StaleCount(id) <= COPY_WINDOW_STALE_THRESHOLD

\* an intent that was never matched has left the window at the retirement
\* that made its counter threshold + 1, after counting up to the threshold
C10_Witness ==
  \E id \in 0 .. (Len(loaded) - 1) :
    /\ ~InWindow(id)
    /\ id \notin Range(retired)
    /\ StaleCount(id) = COPY_WINDOW_STALE_THRESHOLD + 1
    /\ Len(retired) = COPY_WINDOW_STALE_THRESHOLD + 1

(***************************************************************************)
(* Claims about the stages in a row, checked under PipeSpec.               *)
(***************************************************************************)

\* every source held the single record {10, cpu i, load, size class 0,
\* 0x1000 + i}, and all three stages have run to completion
ScenarioRun ==
  /\ mpc = "done"
  /\ readErr = {}
  /\ \A i \in Sources : parsers[i] = <<LogRecord(10, i)>>
  /\ dpc = "done"
  /\ Len(stageIn) = Len(annotated)

\* the records leave the merger in the order cpu 0, cpu 1, ...
ScenarioMerged == merged = [k \in 1 .. NumSources |-> LogRecord(10, k - 1)]

\* the trace of every CPU is one missed load of its address, with bubble b
ScenarioMisses(b) ==
  \A i \in Sources :
    writers[i] = <<[kind |-> "load",
                    bubble |-> [wrapped |-> FALSE, value |-> b],
                    address |-> PAGE_SIZE + i]>>

IntentsWithoutCopy == {id \in 0 .. (Len(loaded) - 1) : id \notin Range(retired)}

\* C11: when the stream has ended, the unmatched-kernel-intents count that is
\* reported equals the number of parsed intents for which no CopyRecord was
\* written: the intents dropped for staleness and the intents still in the
\* window.
C11_UnmatchedReport ==
  dpc = "done" => UnmatchedRowclones = Cardinality(IntentsWithoutCopy)

(***************************************************************************)
(* Claims about the record codec, checked under CodecSpec.                 *)
(***************************************************************************)

\* C12: deserialize of the buffer serialize filled for a record has the
\* record's five fields, and parsing the text Display wrote for a record
\* succeeds with the record's five fields.
C12_CodecRoundTrip ==
  /\ codecOut.kind = "ok" => codecOut.rec = codecRec
  /\ (codecParsed.kind = "run" /\ codecParsed.text = LogRecordDisplay(codecRec)) =>
       /\ codecParsed.res.kind = "ok"
       /\ codecParsed.res.rec = codecRec

\* both round trips were made for a record with a non-zero cpu, store flag
\* and size class, an address with hexadecimal letters, on either byte order
C12_Witness ==
  /\ codecOut.kind = "ok"
  /\ codecParsed.kind = "run"
  /\ codecParsed.text = LogRecordDisplay(codecRec)
  /\ codecRec = [insn_count |-> 1234567, cpu |-> 255, store |-> 1, size |-> 3,
                 address |-> 11259375]
  /\ codecBuf[12] = 255
  /\ bigEndian

\* C13: parsing a malformed line (a field count that does not match, or a
\* field that does not parse) returns an error value, for the AccessRecord
\* text form and for the annotated text form alike; it never panics.
C13_MalformedIsError ==
  /\ (codecParsed.kind = "run" /\ codecParsed.text \in MalformedAccessLines) =>
       codecParsed.res.kind = "err"
  /\ (codecAcc.kind = "run" /\ codecAcc.text \in MalformedAnnotatedLines) =>
       codecAcc.res.kind = "err"

\* C14: in every set, lru_order holds the index of each occupied line exactly
\* once and the index of no free line, so its length is the number of occupied
\* lines and never exceeds the associativity.
OccupiedLines(set) == {i \in DOMAIN set.lines : set.lines[i] # <<>>}

C14_LruInvariant ==
  \A x \in DOMAIN cache.sets :
    LET set == cache.sets[x]
    IN /\ Range(set.lru_order) = OccupiedLines(set)
       /\ Len(set.lru_order) = Cardinality(OccupiedLines(set))
       /\ Len(set.lru_order) <= Associativity

\* C15: when the next access matches the cursor of an ongoing copy, the
\* continuation of that copy is the only step taken: nothing is written, the
\* potential copies, the window, the kernel log and the match counter stay as
\* they are, and only the ongoing list changes.
MatchesOngoing(mem_access) ==
  \E k \in 1 .. Len(ongoing_copies) : mem_copy_match(mem_access, ongoing_copies[k])

MatchesPotential(mem_access) ==
  \E k \in 1 .. Len(potential_copies) :
    mem_copy_match(mem_access, potential_copies[k])

MatchesIntentSource(mem_access) ==
  \E k \in 1 .. Len(copy_window) :
    /\ mem_access.store = 0
    /\ mem_access.address = IF copy_window[k].operation = "w"
                            THEN copy_window[k].user_address
                            ELSE copy_window[k].kernel_address

C15_OngoingPriority ==
  [][(dpc = "run" /\ mem_accesses # <<>> /\ MatchesOngoing(Head(mem_accesses))) =>
       /\ emitted' = <<>>
       /\ regular_out' = regular_out
       /\ rowclone_out' = rowclone_out
       /\ potential_copies' = potential_copies
       /\ copy_window' = copy_window
       /\ copy_logs' = copy_logs
       /\ rowclones' = rowclones
       /\ ongoing_copies' # ongoing_copies]_vars

\* the fifth access was a load at the cursor shared by the ongoing copy of
\* intent 0 and the potential copy of intent 1 (opened by the fourth access):
\* only the ongoing copy moved
C15_Witness ==
  /\ accessed = 5
  /\ emitted = <<>>
  /\ Len(ongoing_copies) = 1
  /\ Len(potential_copies) = 1
  /\ ongoing_copies[1].rec_id = 0
  /\ potential_copies[1].rec_id = 1
  /\ potential_copies[1].insn_count = 14
  /\ potential_copies[1].current_to = potential_copies[1].to
  /\ potential_copies[1].current_from = ScriptCursor
  /\ ongoing_copies[1].current_from = ScriptCursor + 2

\* C16: an access that matches no ongoing cursor, no potential cursor and no
\* source address of a window intent is written as one regular line with the
\* insn_count, cpu, store flag, size class and address of the input, and the
\* window, the potential list and the ongoing list stay as they are.
MatchesNothing(mem_access) ==
  /\ ~MatchesOngoing(mem_access)
  /\ ~MatchesPotential(mem_access)
  /\ ~MatchesIntentSource(mem_access)

\* the fields MemRecord has
CarriesWritten(line, mem_access) ==
  /\ line.kind = "regular"
  /\ line.insn_count = mem_access.insn_count
  /\ line.address = mem_access.address
  /\ line.store = (mem_access.store = 1)

CarriesAll(line, mem_access) ==
  /\ CarriesWritten(line, mem_access)
  /\ "cpu" \in DOMAIN line /\ line.cpu = mem_access.cpu
  /\ "size" \in DOMAIN line /\ line.size = mem_access.size

PassThroughFrame ==
  /\ copy_window' = copy_window
  /\ potential_copies' = potential_copies
  /\ ongoing_copies' = ongoing_copies

C16_PassThrough ==
  [][(dpc = "run" /\ mem_accesses # <<>> /\ MatchesNothing(Head(mem_accesses))) =>
       /\ Len(emitted') = 1
       /\ CarriesAll(emitted'[1], Head(mem_accesses))
       /\ PassThroughFrame]_vars

\* C17: every entry the cache stage writes (a missed regular access or a
\* CopyRecord) after the first of its CPU has bubble = insn_count minus the
\* insn_count of the entry written before it when that is not negative, and
\* bubble = 1 when the insn_count went backward; the subtraction never
\* underflows, so the stage neither aborts on it nor writes a wrapped value.
OwedLine(rec) ==
  \/ rec.kind = "regular" /\ ~CacheAccess(caches[rec.cpu], rec.address).hit
  \/ rec.kind = "rowclone" /\ rec.to % PAGE_SIZE = 0

ClampedBubble(insn_count, prev) ==
  [wrapped |-> FALSE, value |-> IF prev > insn_count THEN 1 ELSE insn_count - prev]

C17_BubbleClamp ==
  [][\A rec \in StageInputs(Cardinality(DOMAIN caches)) :
       (stageIn' = Append(stageIn, rec) /\ rec.kind # "malformed"
          /\ ~first[rec.cpu] /\ OwedLine(rec)) =>
         /\ ~stagePanicked'
         /\ Len(writers'[rec.cpu]) = Len(writers[rec.cpu]) + 1
         /\ writers'[rec.cpu][Len(writers'[rec.cpu])].bubble =
              ClampedBubble(rec.insn_count, prev_insn_counts[rec.cpu])]_vars

\* C18: every CopyRecord the detector writes has from and to that are
\* multiples of 4096, whatever the intents and the accesses, so invalidate_page
\* accepts its destination.
C18_CopyRecordsAligned ==
  \A k \in 1 .. Len(rowclone_out) :
    /\ rowclone_out[k].from % PAGE_SIZE = 0
    /\ rowclone_out[k].to % PAGE_SIZE = 0
    /\ ~CacheInvalidatePage(CacheNew(CacheBytes, BlockBytes, Associativity),
                            rowclone_out[k].to).panic

\* C19: invalidate_page with an address that is not a multiple of 4096 aborts
\* the run and leaves every line of the cache as it was; with a multiple of
\* 4096 the call completes.
C19_InvalidatePrecondition ==
  [][\A address \in InvalidateAddrs :
       (cacheOps' = Append(cacheOps, [op |-> "invalidate_page", arg |-> address,
                                      hit |-> FALSE])) =>
         IF address % PAGE_SIZE # 0
         THEN cachePanicked' /\ cache' = cache
         ELSE ~cachePanicked']_vars

\* a block of page 0 was cached, then invalidate_page was called with an
\* address inside page 0 that is not its base: the run aborted and the block
\* is still resident
C19_Witness ==
  /\ Len(cacheOps) >= 2
  /\ cachePanicked
  /\ LET last == cacheOps[Len(cacheOps)]
         before == cacheOps[Len(cacheOps) - 1]
     IN /\ last.op = "invalidate_page"
        /\ last.arg % PAGE_SIZE # 0
        /\ before.op = "access"
        /\ BlockInPage(BlockOf(before.arg), last.arg - (last.arg % PAGE_SIZE))
        /\ BlockOf(before.arg) \in Resident(cache)

\* C20: for a line that matches the grammar the intent has operation = the
\* 2nd field, size = the 4th, kernel_address = the 7th (kernel_addr) and
\* user_address = the 8th; addr1 and addr2 influence no field of the intent.
ParsedIntent == kernelRec.kind = "run" /\ kernelRec.res.some

\* the lines that differ from line in the named field only
VaryAddr1(line) == {[line EXCEPT !.addr1 = a] : a \in FieldAddrs}
VaryAddr2(line) == {[line EXCEPT !.addr2 = a] : a \in FieldAddrs}
VaryKernelAddr(line) == {[line EXCEPT !.kernel_addr = a] : a \in FieldAddrs}

C20_FieldMappingOriginal ==
  ParsedIntent =>
    /\ kernelRec.res.rec.operation = kernelLine.op
    /\ kernelRec.res.rec.size = kernelLine.size
    /\ kernelRec.res.rec.kernel_address = kernelLine.kernel_addr
    /\ kernelRec.res.rec.user_address = kernelLine.user_addr
    /\ \A other \in VaryAddr1(kernelLine) \cup VaryAddr2(kernelLine) :
         parse_kernel_line(other, kernelRec.res.rec.rec_id) = kernelRec.res

\* C20 as the code has it: kernel_address is the 6th field (addr2) and
\* user_address the 8th; addr1 and the 7th field influence no field of the
\* intent.
C20_FieldMapping ==
  ParsedIntent =>
    /\ kernelRec.res.rec.operation = kernelLine.op
    /\ kernelRec.res.rec.size = kernelLine.size
    /\ kernelRec.res.rec.kernel_address = kernelLine.addr2
    /\ kernelRec.res.rec.user_address = kernelLine.user_addr
    /\ \A other \in VaryAddr1(kernelLine) \cup VaryKernelAddr(kernelLine) :
         parse_kernel_line(other, kernelRec.res.rec.rec_id) = kernelRec.res

\* a parsed line whose 5th, 6th and 7th fields are not all the same
C20_Witness ==
  /\ ParsedIntent
  /\ kernelLine.addr2 # kernelLine.kernel_addr
  /\ kernelLine.addr1 # kernelLine.addr2
  /\ kernelLine.op = "w"
  /\ kernelLine.size = 6
  /\ kernelLine.user_addr # kernelLine.addr2

\* C21: once a read of a source has failed with an I/O error other than end
\* of data, the merger writes no further record and does not end as a normal
\* run; only end of data leaves a source silently not refilled.
C21_ReadErrorIsFatal ==
  [][readErr # {} => (merged' = merged /\ mpc' # "done")]_vars

\* C22: when a matching access makes an ongoing copy complete (current_to >=
\* to + size), a CopyRecord for that copy is written at that step and the copy
\* is removed from the ongoing list.
FirstOngoing(mem_access) ==
  CHOOSE k \in 1 .. Len(ongoing_copies) :
    /\ mem_copy_match(mem_access, ongoing_copies[k])
    /\ \A j \in 1 .. (k - 1) : ~mem_copy_match(mem_access, ongoing_copies[j])

CompletesOngoing(mem_access) ==
  /\ dpc = "run"
  /\ MatchesOngoing(mem_access)
  /\ copy_done(update_copy(ongoing_copies[FirstOngoing(mem_access)], mem_access))

C22_OngoingCompletionOriginal ==
  [][(mem_accesses # <<>> /\ CompletesOngoing(Head(mem_accesses))) =>
       LET idx == FirstOngoing(Head(mem_accesses))
       IN  /\ ongoing_copies' = RemoveAt(ongoing_copies, idx)
           /\ emitted' = <<print_rowclone(ongoing_copies[idx])>>]_vars

\* C22 as the code has it: the copy is removed from the ongoing list and
\* nothing is written at that step; its CopyRecord is the one written when it
\* was promoted.
C22_OngoingCompletion ==
  [][(mem_accesses # <<>> /\ CompletesOngoing(Head(mem_accesses))) =>
       LET idx == FirstOngoing(Head(mem_accesses))
       IN  /\ ongoing_copies' = RemoveAt(ongoing_copies, idx)
           /\ emitted' = <<>>
           /\ rowclone_out' = rowclone_out
           /\ \E k \in 1 .. Len(rowclone_out) :
                /\ rowclone_out[k].from = ongoing_copies[idx].from
                /\ rowclone_out[k].to = ongoing_copies[idx].to
                /\ rowclone_out[k].insn_count = ongoing_copies[idx].insn_count]_vars

\* the fourth access completed the copy promoted by the third: the ongoing
\* list is empty again, one CopyRecord was written and none at this step
C22_Witness ==
  /\ accessed = 4
  /\ emitted = <<>>
  /\ ongoing_copies = <<>>
  /\ potential_copies = <<>>
  /\ rowclones = 1
  /\ Len(rowclone_out) = 1
  /\ rowclone_out[1].to = UserAddr(0)

\* C23: a potential copy that a matching access does not complete is promoted
\* (its CopyRecord written at that step, the copy moved to the ongoing list)
\* exactly when the bytes of loads matched to it and the bytes of stores
\* matched to it both exceed the confidence threshold; otherwise it stays
\* potential and no CopyRecord is written for it.
\* Every access of a scripted stream has 2 bytes: the load that opens a copy
\* leaves current_from at (from + 1) * 2 and every later matched load adds 2.
LoadBytes(copy) == 2 + (copy.current_from - (copy.from + 1) * 2)
StoreBytes(copy) == copy.current_to - copy.to

C23_ConfidencePromotion ==
  [][(dpc = "run" /\ mem_accesses # <<>> /\ ~MatchesOngoing(Head(mem_accesses))) =>
       \A k \in 1 .. Len(potential_copies) :
         LET copy == update_copy(potential_copies[k], Head(mem_accesses))
         IN  (mem_copy_match(Head(mem_accesses), potential_copies[k])
                /\ ~copy_done(copy)) =>
               IF LoadBytes(copy) > COPY_CONFIDENCE_THRESHOLD
                    /\ StoreBytes(copy) > COPY_CONFIDENCE_THRESHOLD
               THEN /\ copy \in Range(ongoing_copies')
                    /\ print_rowclone(copy) \in Range(emitted')
               ELSE /\ copy \in Range(potential_copies')
                    /\ print_rowclone(copy) \notin Range(emitted')]_vars

\* C24: when a load that matches no copy hits the declared source address of
\* a window intent that has no potential copy yet, the access is consumed and
\* a potential copy is added with rec_id and size of the intent, insn_count of
\* the access, from = the access address, to = the intent's destination, the
\* load cursor at the access address (or just past the bytes the access read)
\* and the store cursor at the destination.
IntentSource(intent) ==
  IF intent.operation = "w" THEN intent.user_address ELSE intent.kernel_address

IntentDestination(intent) ==
  IF intent.operation = "w" THEN intent.kernel_address ELSE intent.user_address

HasPotential(intent) ==
  \E k \in 1 .. Len(potential_copies) : potential_copies[k].rec_id = intent.rec_id

Opened(intent, mem_access) ==
  \E k \in 1 .. Len(potential_copies') :
    LET copy == potential_copies'[k]
    IN  /\ copy.rec_id = intent.rec_id
        /\ copy.size = intent.size
        /\ copy.insn_count = mem_access.insn_count
        /\ copy.from = mem_access.address
        /\ copy.to = IntentDestination(intent)
        /\ copy.current_to = IntentDestination(intent)
        /\ copy.current_from \in {mem_access.address,
                                  mem_access.address + 2 ^ mem_access.size}

C24_OpenPotentialCopy ==
  [][(dpc = "run" /\ mem_accesses # <<>>
        /\ ~MatchesOngoing(Head(mem_accesses))
        /\ ~MatchesPotential(Head(mem_accesses))) =>
       \A w \in 1 .. Len(copy_window) :
         (Head(mem_accesses).store = 0
            /\ Head(mem_accesses).address = IntentSource(copy_window[w])
            /\ ~HasPotential(copy_window[w])) =>
           /\ emitted' = <<>>
           /\ Opened(copy_window[w], Head(mem_accesses))]_vars

\* C25: an access matched to a copy (potential or ongoing) advances exactly
\* one cursor of that copy by 2^size_class bytes: a load current_from, a store
\* current_to, the other cursor staying; every other copy keeps its cursors;
\* current_to never decreases; from, to and size of a copy never change; and
\* the copy leaves the lists at that step exactly when current_to >= to + size.
Copies == Range(potential_copies) \cup Range(ongoing_copies)

\* whether the detector matches the access to the copy: the first matching
\* ongoing copy, else every matching potential copy
MatchedTo(copy, mem_access) ==
  IF MatchesOngoing(mem_access)
  THEN copy = ongoing_copies[FirstOngoing(mem_access)]
  ELSE copy \in Range(potential_copies) /\ mem_copy_match(mem_access, copy)

StepLoad(copy, mem_access) ==
  IF MatchedTo(copy, mem_access) /\ mem_access.store = 0
  THEN 2 ^ mem_access.size ELSE 0

StepStore(copy, mem_access) ==
  IF MatchedTo(copy, mem_access) /\ mem_access.store = 1
  THEN 2 ^ mem_access.size ELSE 0

C25_CursorDiscipline ==
  [][(dpc = "run" /\ mem_accesses # <<>>) =>
       \A copy \in Copies :
         LET after == {c \in Range(potential_copies') \cup Range(ongoing_copies') :
                         c.rec_id = copy.rec_id}
             reached == copy.current_to + StepStore(copy, Head(mem_accesses))
         IN  /\ (after = {}) <=>
                  (MatchedTo(copy, Head(mem_accesses))
                     /\ reached >= copy.to + copy.size)
             /\ \A c \in after :
                  /\ c.from = copy.from /\ c.to = copy.to /\ c.size = copy.size
                  /\ c.current_from =
                       copy.current_from + StepLoad(copy, Head(mem_accesses))
                  /\ c.current_to = reached
                  /\ c.current_to >= copy.current_to]_vars

\* a clean trace of 1-byte accesses: loads after the opening one and stores
\* have been matched to the copy
C25_Witness ==
  /\ scenario.size_class = 0
  /\ \E copy \in Copies :
       /\ copy.current_from >= copy.from + 2
       /\ copy.current_to >= copy.to + 2

\* C26: the window never holds more than COPY_WINDOW intents; after every
\* retirement and staleness sweep it holds exactly COPY_WINDOW intents unless
\* the kernel log has no further line that parses, so a line that fails the
\* grammar does not keep the lines after it out of that refill.
ParsableLeft == \E k \in 1 .. Len(copy_logs) : copy_logs[k].kind = "intent"

C26_WindowRefill ==
  /\ Len(copy_window) <= COPY_WINDOW
  /\ Len(retired) > 0 => (Len(copy_window) = COPY_WINDOW \/ ~ParsableLeft)

\* eprintln!("Rowclones matched: {}", rowclones)
ReportedMatched == rowclones
\* eprintln!("Potential copies: {}", potential_copies.len())
ReportedPotential == Len(potential_copies)
\* eprintln!("Unfinished copies: {}", ongoing_copies.len())
ReportedUnfinished == Len(ongoing_copies)

\* the step that leaves the loop over the accesses
StreamEnds == dpc = "run" /\ dpc' = "done"

\* C27: when the access stream is exhausted nothing more is written (no
\* CopyRecord for a copy still potential or still ongoing, no regular line);
\* the counts reported are the sizes of the potential and of the ongoing list
\* as the loop left them, and the matched count is the number of CopyRecords
\* written during the run.
C27_EndOfStream ==
  [][StreamEnds =>
       /\ rowclone_out' = rowclone_out
       /\ regular_out' = regular_out
       /\ ReportedPotential' = Len(potential_copies)
       /\ ReportedUnfinished' = Len(ongoing_copies)
       /\ ReportedMatched' = Len(rowclone_out')]_vars

\* the stream has ended with a copy still potential and one still ongoing
C27_Witness ==
  /\ dpc = "done"
  /\ potential_copies # <<>>
  /\ ongoing_copies # <<>>
  /\ ReportedMatched = 1
  /\ ReportedPotential = 1
  /\ ReportedUnfinished = 1

\* The abstract LRU: per set a list of resident block addresses, least
\* recently used first, at most Associativity long.
AbsNew == [x \in 0 .. (((CacheBytes \div BlockBytes) \div Associativity) - 1) |-> <<>>]

AbsWithout(list, block) == SelectSeq(list, LAMBDA b : b # block)

AbsHit(abs, address) ==
  LET block == address \div BlockBytes
      list == abs[block % Cardinality(DOMAIN abs)]
  IN  \E i \in 1 .. Len(list) : list[i] = block

\* a resident block moves to the most-recent end; a non-resident block is
\* appended, the least-recent one dropped first only if the set is full
AbsAccess(abs, address) ==
  LET block == address \div BlockBytes
      x == block % Cardinality(DOMAIN abs)
      list == abs[x]
  IN  IF AbsHit(abs, address)
      THEN [abs EXCEPT ![x] = Append(AbsWithout(list, block), block)]
      ELSE IF Len(list) = Associativity
      THEN [abs EXCEPT ![x] = Append(Tail(list), block)]
      ELSE [abs EXCEPT ![x] = Append(list, block)]

\* every block of [address, address + PAGE_SIZE) leaves its set
AbsInvalidatePage(abs, address) ==
  [x \in DOMAIN abs |->
     SelectSeq(abs[x],
               LAMBDA b : ~(address \div BlockBytes <= b
                            /\ b <= (address + PAGE_SIZE - 1) \div BlockBytes))]

\* the abstract model after the first n operations of the history
RECURSIVE AbsAfter(_, _)
AbsAfter(ops, n) ==
  IF n = 0
  THEN AbsNew
  ELSE LET before == AbsAfter(ops, n - 1)
       IN  IF ops[n].op = "access"
           THEN AbsAccess(before, ops[n].arg)
           ELSE AbsInvalidatePage(before, ops[n].arg)

\* the recency list a CacheSet stands for: the tags of its lines in LRU order
AbsView(set) == [i \in 1 .. Len(set.lru_order) |-> set.lines[set.lru_order[i]]]
AbsTags(list) == [i \in 1 .. Len(list) |-> <<list[i]>>]

\* C28: Cache refines the abstract LRU.  Every access of the history returned
\* hit exactly when the abstract model, run over the operations before it,
\* holds the block; and as long as no assertion failed each set stands for the
\* abstract recency list of that set, with every line outside the LRU order
\* free.
C28_LruRefinement ==
  /\ \A n \in 1 .. Len(cacheOps) :
       cacheOps[n].op = "access" =>
         (cacheOps[n].hit <=> AbsHit(AbsAfter(cacheOps, n - 1), cacheOps[n].arg))
  /\ ~cachePanicked =>
       \A x \in DOMAIN cache.sets :
         /\ AbsView(cache.sets[x]) = AbsTags(AbsAfter(cacheOps, Len(cacheOps))[x])
         /\ \A j \in DOMAIN cache.sets[x].lines :
              cache.sets[x].lines[j] # <<>> =>
                \E i \in 1 .. Len(cache.sets[x].lru_order) :
                  cache.sets[x].lru_order[i] = j

\* a full set lost one block to an invalidation, and the miss that followed
\* took the freed line: the block the invalidation spared is still resident
C28_Witness ==
  /\ Len(cacheOps) = 4
  /\ cacheOps[1].op = "access" /\ cacheOps[1].arg = 0
  /\ cacheOps[2].op = "access" /\ cacheOps[2].arg = PAGE_SIZE
  /\ cacheOps[3].op = "invalidate_page" /\ cacheOps[3].arg = 0
  /\ cacheOps[4].op = "access" /\ ~cacheOps[4].hit
  /\ Resident(cache) = {PAGE_SIZE \div BlockBytes, cacheOps[4].arg \div BlockBytes}
  /\ cacheOps[4].arg \div BlockBytes # PAGE_SIZE \div BlockBytes
  /\ (cacheOps[4].arg \div BlockBytes) % NumSets(cache) = 0

\* the annotated records the detector can write for the records of the model
AnnotatedRecords == UNION {AnnotatedFor(rec) : rec \in CodecRecords}

\* MemoryAccess::from_str was last run on the line written for access
ReadBack(access) ==
  codecAcc.kind = "run" /\ codecAcc.text = MemoryAccessDisplay(access)

\* C29: parsing the text line written for an annotated record yields a record
\* of the same variant with the same fields: a CopyRecord is read back as a
\* CopyRecord with the same insn_count, from and to, a regular load or store
\* as a regular access with the same insn_count, store flag and address.
C29_AnnotatedRoundTrip ==
  \A access \in AnnotatedRecords :
    ReadBack(access) => codecAcc.res = [kind |-> "ok", rec |-> access]

\* the items next() has not returned yet
LookRest == SubSeq(lookSource, Len(lookTaken) + 1, Len(lookSource))

IsPrefix(s, t) == Len(s) <= Len(t) /\ s = SubSeq(t, 1, Len(s))

\* C30: lookahead does not consume.  Whatever peek_n and next() calls were
\* made, the items next() has returned are the first items of the underlying
\* sequence, in order and each once, and next() returns None only when all of
\* them have been returned; the view of peek_n(n) starts with the items the
\* following next() calls return and has at least n items unless the source
\* is exhausted, in which case it is all the items left.
C30_LookaheadDoesNotConsume ==
  /\ IsPrefix(lookTaken, lookSource)
  /\ lookahead.buffer \o lookahead.iter = LookRest
  /\ (lookLast.call = "next" /\ ~lookLast.some) => lookTaken = lookSource
  /\ lookLast.call = "peek_n" =>
       /\ IsPrefix(lookLast.view, LookRest)
       /\ Len(lookLast.view) >= lookLast.n \/ lookLast.view = LookRest

\* two items were buffered by a peek and next() then returned the first of
\* them from the buffer: the second is still buffered, the third not yet pulled
C30_Witness ==
  /\ Len(lookSource) = 3
  /\ lookSource[1] # lookSource[2]
  /\ lookLast.call = "next"
  /\ lookLast.some
  /\ lookTaken = <<lookSource[1]>>
  /\ lookahead.buffer = <<lookSource[2]>>
  /\ lookahead.iter = <<lookSource[3]>>

\* remove_stale_copies is called for the intent of each CopyRecord, just before
\* print_rowclone: retired[k] is the record id of the k-th CopyRecord
EmittedFor == retired

HasPotentialFor(rec_id) ==
  \E k \in 1 .. Len(potential_copies) : potential_copies[k].rec_id = rec_id

\* C31: at most one CopyRecord per kernel intent.  No two CopyRecords written
\* carry the record id of the same intent; an intent a CopyRecord was written
\* for is not in the window any more and has no potential copy, so none can be
\* opened or promoted for it again, and the ongoing copies are copies whose
\* CopyRecord has been written already (their completion writes none).
C31_OneCopyRecordPerIntent ==
  /\ Len(EmittedFor) = Len(rowclone_out)
  /\ \A j, k \in 1 .. Len(EmittedFor) : j # k => EmittedFor[j] # EmittedFor[k]
  /\ \A k \in 1 .. Len(EmittedFor) :
       ~InWindow(EmittedFor[k]) /\ ~HasPotentialFor(EmittedFor[k])
  /\ \A k \in 1 .. Len(ongoing_copies) :
       \E j \in 1 .. Len(EmittedFor) : EmittedFor[j] = ongoing_copies[k].rec_id

\* CopyRecords were written for two intents: the first copy is no longer
\* tracked, the second is ongoing
C31_Witness ==
  /\ Len(rowclone_out) = 2
  /\ Len(EmittedFor) = 2
  /\ EmittedFor[1] # EmittedFor[2]
  /\ Len(ongoing_copies) = 1
  /\ ongoing_copies[1].rec_id = EmittedFor[2]

\* C32: back-reference integrity.  The record id of every potential copy is
\* the record id of an intent that is in the window.
C32_BackReferenceIntegrity ==
  \A k \in 1 .. Len(potential_copies) : InWindow(potential_copies[k].rec_id)

\* the regular lines the step wrote
RegularWritten == SelectSeq(emitted', IsRegular)

\* the step took the access into the tracking of a copy: a cursor moved, a
\* copy was opened, restarted, promoted or completed
Consumed ==
  \/ potential_copies' # potential_copies
  \/ ongoing_copies' # ongoing_copies

\* C33: detector conservation.  Every access taken from the stream is either
\* consumed by the tracking of a copy or written as a regular access, never
\* both and never twice: the step writes at most one regular line, that line
\* is the line of the access just taken (so the regular lines leave in input
\* order), it is written exactly when the access was not consumed, and then
\* nothing else is written and no copy is touched; the count of regular lines
\* grows by that one line, so regular lines plus consumed accesses add up to
\* the accesses taken.
C33_Conservation ==
  [][(dpc = "run" /\ mem_accesses # <<>> /\ accessed' = accessed + 1) =>
       /\ Len(RegularWritten) <= 1
       /\ regular_out' = regular_out + Len(RegularWritten)
       /\ regular_out' <= accessed'
       /\ Len(RegularWritten) = 1 <=> ~Consumed
       /\ Len(RegularWritten) = 1 =>
            /\ emitted' = <<print_regular_access(Head(mem_accesses))>>
            /\ rowclone_out' = rowclone_out
            /\ PassThroughFrame]_vars

\* of five accesses three were consumed, one CopyRecord came of them, and two
\* were written as regular accesses, the last of them while a potential copy
\* was waiting
C33_Witness ==
  /\ accessed = 5
  /\ regular_out = 2
  /\ Len(rowclone_out) = 1
  /\ Len(emitted) = 1
  /\ emitted[1].kind = "regular"
  /\ emitted[1].insn_count = 15
  /\ potential_copies # <<>>

=============================================================================
